---- MODULE Spec2Model ----
(***************************************************************************)
(* A model of the OPC package layer and the xmlchemy element framework of  *)
(* docx (src/scripts/merged_files.py).                                     *)
(*                                                                         *)
(* The module holds several specifications over one set of variables:      *)
(*   SpecWalk  OpcPackage.iter_parts / iter_rels over a relationship graph *)
(*   SpecRels  one Relationships collection under load_rel, relate_to,     *)
(*             drop_rel and part_with_reltype                              *)
(*   SpecPkg   OpcPackage.save followed by OpcPackage.open                 *)
(*   SpecTypes the reader's _ContentTypeMap over a [Content_Types].xml     *)
(*   SpecXml   the generated child-element methods on an element whose     *)
(*             children are in content-model order                         *)
(*   SpecParsed  the same methods on an element parsed with its children   *)
(*             in any order                                                *)
(*   SpecTbl   _Cell.merge on the cells of a table                         *)
(*   SpecIO    PackageWriter.write and PackageReader.from_file call by     *)
(*             call, then Unmarshaller.unmarshal                           *)
(*   SpecDrop  Part.drop_rel on a Part or an XmlPart whose XML refers to   *)
(*             relationships                                               *)
(*   SpecNames Part.partname and OpcPackage.next_partname on a package     *)
(*             being wired                                                 *)
(*   SpecAttr  the getter and setter of an OptionalAttribute or a          *)
(*             RequiredAttribute, and the boolean simple types             *)
(*   SpecLength  Length.twips, Twips, Pt and ST_TwipsMeasure on one Length *)
(*   SpecHdr   is_linked_to_previous on the headers and footers of the     *)
(*             sections of a document                                      *)
(* Each specification keeps the variables of the others at their idle      *)
(* values.                                                                 *)
(***************************************************************************)
EXTENDS Integers, Sequences, FiniteSets, TLC

VARIABLES
    graph,      \* SpecWalk: source -> its Relationships, in dict order
    wmode,      \* SpecWalk: "idle" | "parts" | "rels" | "done"
    wkind,      \* SpecWalk: which generator ran: "none" | "parts" | "rels"
    wstack,     \* SpecWalk: generator frames, innermost last: [src, idx]
    visited,    \* SpecWalk: the `visited` list shared by the recursion
    yielded,    \* SpecWalk: what the generator has yielded so far
    rels,       \* SpecRels: one Relationships dict, its items in dict order
    target_parts_by_rId,  \* SpecRels: Relationships._target_parts_by_rId
    call,       \* SpecRels: the last call on the collection and its outcome
    pkg,        \* SpecPkg: the package in memory: source -> its Relationships
    pstate,     \* SpecPkg: "idle" | "built" | "saved" | "opened"
    phys,       \* SpecPkg: the physical package written by save
    opened,     \* SpecPkg: the package OpcPackage.open made of `phys`
    types_xml,  \* SpecTypes: the Default and Override elements of a manifest
    ct_map,     \* SpecTypes: the _ContentTypeMap, [overrides, defaults]
    lookup,     \* SpecTypes: the last content_types[partname] and its outcome
    ecls,       \* SpecXml, SpecParsed: the element class
    children,   \* SpecXml, SpecParsed: the tags of the element's children
    xcall,      \* SpecXml, SpecParsed: the last method called on the element
    tbl,        \* SpecTbl: the w:tbl, a sequence of rows of w:tc cells
    merges,     \* SpecTbl: the number of merge calls made on the table
    tcall,      \* SpecTbl: the last _Cell.merge call and its outcome
    iopkg,      \* SpecIO: the package in memory: source -> its Relationships
    iopc,       \* SpecIO: the position of the save, then of the load
    ioidx,      \* SpecIO: the index of the next call or loop iteration
    phys_writer,  \* SpecIO: the physical writer: "none" | "open" | "closed"
    phys_reader,  \* SpecIO: the physical reader: "none" | "open" | "closed"
    writes,     \* SpecIO: the phys_writer.write calls made, in order
    edit,       \* SpecIO: what was done to the saved file before the load
    sparts,     \* SpecIO: the serialized parts loaded so far
    events,     \* SpecIO: the calls Unmarshaller.unmarshal made, in order
    part_cls,   \* SpecDrop: the class of the part: "Part" | "XmlPart"
    r_ids,      \* SpecDrop: the values of the r:id attributes in the part's XML
    partnames,  \* SpecNames: Part object -> its _partname
    wired,      \* SpecNames: the relationships made: <<source, target part>>
    ncall,      \* SpecNames: the last call and its outcome
    attr_decl,  \* SpecAttr: the attribute declaration of the element class
    attrib,     \* SpecAttr: the attribute on the element: <<>> or <<its string>>
    acall,      \* SpecAttr: the last call and its outcome
    length,     \* SpecLength: the Length at hand, in EMU
    lcall,      \* SpecLength: the last call and its outcome
    sectPr_lst, \* SpecHdr: the w:sectPr elements of the document, each with
                \*   the rId of its w:headerReference and w:footerReference
    hcall       \* SpecHdr: the last call and its outcome

walkVars == <<graph, wmode, wkind, wstack, visited, yielded>>
relsVars == <<rels, target_parts_by_rId, call>>
pkgVars == <<pkg, pstate, phys, opened>>
typesVars == <<types_xml, ct_map, lookup>>
vars == <<graph, wmode, wkind, wstack, visited, yielded,
          rels, target_parts_by_rId, call,
          pkg, pstate, phys, opened,
          types_xml, ct_map, lookup,
          ecls, children, xcall,
          tbl, merges, tcall,
          iopkg, iopc, ioidx, phys_writer, phys_reader, writes, edit, sparts,
          events,
          part_cls, r_ids,
          partnames, wired, ncall,
          attr_decl, attrib, acall,
          length, lcall,
          sectPr_lst, hcall>>
xmlVars == <<ecls, children, xcall>>
tblVars == <<tbl, merges, tcall>>
ioVars == <<iopkg, iopc, ioidx, phys_writer, phys_reader, writes, edit, sparts,
           events>>
dropVars == <<part_cls, r_ids>>
nameVars == <<partnames, wired, ncall>>
attrVars == <<attr_decl, attrib, acall>>
lenVars == <<length, lcall>>
hdrVars == <<sectPr_lst, hcall>>
lateVars == <<attrVars, lenVars, hdrVars>>
extVars == <<tblVars, ioVars, dropVars, nameVars, lateVars>>
notWalkVars == <<relsVars, pkgVars, typesVars, xmlVars, extVars>>
notRelsVars == <<walkVars, pkgVars, typesVars, xmlVars, extVars>>
notPkgVars == <<walkVars, relsVars, typesVars, xmlVars, extVars>>
notTypesVars == <<walkVars, relsVars, pkgVars, xmlVars, extVars>>
notXmlVars == <<walkVars, relsVars, pkgVars, typesVars, extVars>>
coreVars == <<walkVars, relsVars, pkgVars, typesVars, xmlVars>>
notTblVars == <<coreVars, ioVars, dropVars, nameVars, lateVars>>
notIoVars == <<coreVars, tblVars, dropVars, nameVars, lateVars>>
notNameVars == <<coreVars, tblVars, ioVars, dropVars, lateVars>>
earlyVars == <<coreVars, tblVars, ioVars, dropVars, nameVars>>
notAttrVars == <<earlyVars, lenVars, hdrVars>>
notLenVars == <<earlyVars, attrVars, hdrVars>>
notHdrVars == <<walkVars, pkgVars, typesVars, xmlVars, tblVars, ioVars, dropVars,
                call, ncall, attrVars, lenVars>>

(***************************************************************************)
(* Bounds.                                                                 *)
(***************************************************************************)
MaxParts == 3       \* Part objects in a package
MaxEdges == 2       \* relationships whose source is a part (SpecWalk)
MaxRels == 3        \* relationships held by one collection (SpecRels)
MaxRootRels == 2    \* relationships of the package (SpecPkg)
MaxPartRels == 1    \* relationships whose source is a part (SpecPkg)
MaxOverrides == 2   \* Override elements of a manifest (SpecTypes)
MaxDefaults == 1    \* Default elements of a manifest (SpecTypes)
MaxForeign == 1     \* children parsed that the class does not declare (SpecXml)
MaxChildren == 2    \* children parsed (SpecParsed), children added unconditionally

(***************************************************************************)
(* Parts and relationship sources.  A Part object is its identity (Part    *)
(* defines no __eq__); the package is the source numbered PACKAGE.         *)
(***************************************************************************)
PACKAGE == 0
PartIds == 1..MaxParts
Sources == {PACKAGE} \cup PartIds

\* RTM.EXTERNAL targets are URI strings, not parts.
ExternalURIs == {"http://a"}
NoPart == 0
NoURI == ""

\* "rId%d" % n
RIdTable == <<"rId1", "rId2", "rId3", "rId4", "rId5", "rId6", "rId7", "rId8",
              "rId9", "rId10", "rId11", "rId12">>
FormatRId(n) == RIdTable[n]

\* _Relationship(rId, reltype, target, baseURI, external)
Relationship(rId, reltype, part, uri, external) ==
    [rId |-> rId, reltype |-> reltype, target_part |-> part,
     target_uri |-> uri, is_external |-> external]

(***************************************************************************)
(* Helpers on sequences.                                                   *)
(***************************************************************************)
Range(s) == {s[i] : i \in 1..Len(s)}

RECURSIVE SetToSeq(_)
SetToSeq(S) ==
    IF S = {} THEN <<>>
    ELSE LET x == CHOOSE y \in S : \A z \in S : y <= z
         IN <<x>> \o SetToSeq(S \ {x})

\* the subsets of S of at most n elements
SubsetsUpTo(S, n) == UNION {{{f[i] : i \in 1..k} : f \in [1..k -> S]} : k \in 0..n}

NoDuplicates(s) == \A i, j \in 1..Len(s) : i # j => s[i] # s[j]

(***************************************************************************)
(* The idle value of each group of variables: what a specification that    *)
(* does not use the group starts it at and leaves it at.                   *)
(***************************************************************************)
NoCall ==
    [op |-> "none", reltype |-> "", part |-> NoPart, uri |-> NoURI,
     rId |-> "", raised |-> "none", added |-> FALSE, again |-> FALSE]

WalkIdle ==
    /\ graph = [s \in Sources |-> <<>>]
    /\ wmode = "idle"
    /\ wkind = "none"
    /\ wstack = <<>>
    /\ visited = <<>>
    /\ yielded = <<>>

\* Relationships.__init__
RelsIdle ==
    /\ rels = <<>>
    /\ target_parts_by_rId = {}
    /\ call = NoCall

PkgIdle ==
    /\ pkg = <<>>
    /\ pstate = "idle"
    /\ phys = <<>>
    /\ opened = <<>>

TypesIdle ==
    /\ types_xml = <<>>
    /\ ct_map = <<>>
    /\ lookup = <<>>

XmlIdle ==
    /\ ecls = ""
    /\ children = <<>>
    /\ xcall = <<>>

TblIdle ==
    /\ tbl = <<>>
    /\ merges = 0
    /\ tcall = <<>>

\* The groups of the package layer and of xmlchemy, all idle.
CoreIdle == WalkIdle /\ RelsIdle /\ PkgIdle /\ TypesIdle /\ XmlIdle

IoIdle ==
    /\ iopkg = <<>>
    /\ iopc = "idle"
    /\ ioidx = 0
    /\ phys_writer = "none"
    /\ phys_reader = "none"
    /\ writes = <<>>
    /\ edit = <<>>
    /\ sparts = <<>>
    /\ events = <<>>

DropIdle ==
    /\ part_cls = ""
    /\ r_ids = <<>>

NameIdle ==
    /\ partnames = <<>>
    /\ wired = {}
    /\ ncall = <<>>

AttrIdle ==
    /\ attr_decl = <<>>
    /\ attrib = <<>>
    /\ acall = <<>>

LenIdle ==
    /\ length = 0
    /\ lcall = <<>>

HdrIdle ==
    /\ sectPr_lst = <<>>
    /\ hcall = <<>>

LateIdle == AttrIdle /\ LenIdle /\ HdrIdle

\* The groups of the later specifications, all idle.
ExtIdle == TblIdle /\ IoIdle /\ DropIdle /\ NameIdle /\ LateIdle

(***************************************************************************)
(* OpcPackage.iter_parts and OpcPackage.iter_rels as generators: a stack   *)
(* of walk_parts / walk_rels frames, each at a position in                 *)
(* source.rels.values().                                                   *)
(***************************************************************************)
\* `part in visited`
InVisitedNever(part, vis) == FALSE
InVisited(part, vis) == part \in Range(vis)

Top == wstack[Len(wstack)]
Pop == SubSeq(wstack, 1, Len(wstack) - 1)
Advance == [wstack EXCEPT ![Len(wstack)].idx = @ + 1]

\* for part in walk_parts(self): yield part
StartIterParts ==
    /\ wmode = "idle"
    /\ wmode' = "parts"
    /\ wkind' = "parts"
    /\ wstack' = <<[src |-> PACKAGE, idx |-> 1]>>
    /\ visited' = <<>>
    /\ yielded' = <<>>
    /\ UNCHANGED <<graph, notWalkVars>>

\* one pass of the body of `for rel in source.rels.values()` in walk_parts
WalkPartsStep ==
    /\ wmode = "parts"
    /\ wstack # <<>>
    /\ Top.idx <= Len(graph[Top.src])
    /\ LET rel == graph[Top.src][Top.idx] IN
        IF rel.is_external \/ InVisited(rel.target_part, visited)
        THEN /\ wstack' = Advance
             /\ UNCHANGED <<visited, yielded>>
        ELSE /\ visited' = Append(visited, rel.target_part)
             /\ yielded' = Append(yielded, rel.target_part)
             /\ wstack' = Append(Advance, [src |-> rel.target_part, idx |-> 1])
    /\ UNCHANGED <<graph, wmode, wkind, notWalkVars>>

\* for rel in walk_rels(self): yield rel
StartIterRels ==
    /\ wmode = "idle"
    /\ wmode' = "rels"
    /\ wkind' = "rels"
    /\ wstack' = <<[src |-> PACKAGE, idx |-> 1]>>
    /\ visited' = <<>>
    /\ yielded' = <<>>
    /\ UNCHANGED <<graph, notWalkVars>>

\* one pass of the body of `for rel in source.rels.values()` in walk_rels;
\* a yielded relationship is named by its source and its key
WalkRelsStep ==
    /\ wmode = "rels"
    /\ wstack # <<>>
    /\ Top.idx <= Len(graph[Top.src])
    /\ LET rel == graph[Top.src][Top.idx] IN
        /\ yielded' = Append(yielded, <<Top.src, rel.rId>>)
        /\ IF rel.is_external \/ InVisited(rel.target_part, visited)
           THEN /\ wstack' = Advance
                /\ UNCHANGED visited
           ELSE /\ visited' = Append(visited, rel.target_part)
                /\ wstack' = Append(Advance, [src |-> rel.target_part, idx |-> 1])
    /\ UNCHANGED <<graph, wmode, wkind, notWalkVars>>

\* the for loop of a frame is exhausted: the generator frame returns
WalkReturn ==
    /\ wmode \in {"parts", "rels"}
    /\ wstack # <<>>
    /\ Top.idx > Len(graph[Top.src])
    /\ wstack' = Pop
    /\ wmode' = IF Len(wstack) = 1 THEN "done" ELSE wmode
    /\ UNCHANGED <<graph, wkind, visited, yielded, notWalkVars>>

(***************************************************************************)
(* SpecWalk: any relationship graph over MaxParts parts in which the       *)
(* package relates to any set of parts and the parts hold at most MaxEdges *)
(* relationships between them (cycles, self-references and diamonds        *)
(* included), each collection iterated in the order of its keys.           *)
(***************************************************************************)
WalkTargets == PartIds \cup {NoPart}     \* NoPart: an external relationship

RelTo(n, t) ==
    IF t = NoPart
    THEN Relationship(FormatRId(n), "hyperlink", NoPart, "http://a", TRUE)
    ELSE Relationship(FormatRId(n), "part", t, NoURI, FALSE)

RelsTo(targets) == [n \in 1..Len(targets) |-> RelTo(n, targets[n])]

GraphOf(rootTargets, edges) ==
    [s \in Sources |->
        LET ts == IF s = PACKAGE THEN rootTargets
                  ELSE {t \in WalkTargets : <<s, t>> \in edges}
        IN RelsTo(SetToSeq(ts))]

InitWalk ==
    /\ \E rootTargets \in SUBSET PartIds,
          edges \in SubsetsUpTo(PartIds \X WalkTargets, MaxEdges) :
            graph = GraphOf(rootTargets, edges)
    /\ wmode = "idle"
    /\ wkind = "none"
    /\ wstack = <<>>
    /\ visited = <<>>
    /\ yielded = <<>>
    /\ RelsIdle
    /\ PkgIdle
    /\ TypesIdle
    /\ XmlIdle
    /\ ExtIdle

NextWalk ==
    \/ StartIterParts
    \/ WalkPartsStep
    \/ StartIterRels
    \/ WalkRelsStep
    \/ WalkReturn

SpecWalk == InitWalk /\ [][NextWalk]_vars /\ WF_vars(NextWalk)

\* The parts reachable from the package through internal relationships.
Successors(s) ==
    {graph[s][i].target_part : i \in {j \in 1..Len(graph[s]) : ~graph[s][j].is_external}}

RECURSIVE Closure(_)
Closure(S) ==
    LET next == S \cup UNION {Successors(s) : s \in S \cup {PACKAGE}}
    IN IF next = S THEN S ELSE Closure(next)

ReachableParts == Closure({})

\* Every relationship of the package and of every reachable part.
ReachableRels ==
    UNION {{<<s, graph[s][i].rId>> : i \in 1..Len(graph[s])} :
             s \in {PACKAGE} \cup ReachableParts}

\* C3: on any relationship graph, cycles, self-references and diamonds
\* included, iter_parts terminates having yielded each part reachable from
\* the package exactly once, and iter_rels terminates having yielded each
\* relationship of the package and of every reachable part exactly once.
WalkExactlyOnce ==
    /\ NoDuplicates(yielded)
    /\ wkind = "parts" => Range(yielded) \subseteq ReachableParts
    /\ wkind = "rels" => Range(yielded) \subseteq ReachableRels
    /\ (wmode = "done" /\ wkind = "parts") => Range(yielded) = ReachableParts
    /\ (wmode = "done" /\ wkind = "rels") => Range(yielded) = ReachableRels

C3_IterTerminatesExactlyOnce == []WalkExactlyOnce /\ <>(wmode = "done")

HasCycle ==
    \E a, b \in ReachableParts :
        /\ a # b
        /\ b \in Successors(a)
        /\ a \in Successors(b)

C3_Witness ==
    /\ wmode = "done"
    /\ HasCycle
    /\ Len(yielded) >= 2

(***************************************************************************)
(* Relationships: a dict of _Relationship keyed by rId, kept here as the   *)
(* sequence of its values in dict order, with _target_parts_by_rId beside  *)
(* it as a set of <<rId, part>> pairs.                                     *)
(***************************************************************************)
RelTypes == {"image", "hyperlink"}       \* RT.IMAGE, RT.HYPERLINK
InternalRelTypes == {"image"}            \* reltypes offered with a target part
RelParts == 1..2                         \* the Part objects offered as targets
\* the keys load_rel is handed: Id attributes of a .rels item, with a gap
LoadRIds == {"rId1", "rId3"}

Keys(d) == {d[i].rId : i \in 1..Len(d)}
IndexOf(d, rId) == CHOOSE i \in 1..Len(d) : d[i].rId = rId

\* self[rId] = rel: a key already held keeps its place in the dict
DictSet(d, rel) ==
    IF rel.rId \in Keys(d)
    THEN [d EXCEPT ![IndexOf(d, rel.rId)] = rel]
    ELSE Append(d, rel)

\* del self[rId]
DictDel(d, rId) ==
    LET i == IndexOf(d, rId)
    IN SubSeq(d, 1, i - 1) \o SubSeq(d, i + 1, Len(d))

\* self._target_parts_by_rId[rId] = target
ByRIdSet(m, rId, part) == {e \in m : e[1] # rId} \cup {<<rId, part>>}

\* Relationships._next_rId: for n in range(1, len(self) + 2), the first
\* "rId%d" % n that is not a key; None when the loop ends without one
RECURSIVE NextRIdFrom(_, _)
NextRIdFrom(d, n) ==
    IF n >= Len(d) + 2 THEN "None"
    ELSE IF FormatRId(n) \notin Keys(d) THEN FormatRId(n)
    ELSE NextRIdFrom(d, n + 1)

NextRIdLen(d) == FormatRId(Len(d) + 1)
next_rId(d) == NextRIdFrom(d, 1)

\* the `matches` closure of Relationships._get_matching
matches(rel, reltype, part, uri, is_external) ==
    /\ rel.reltype = reltype
    /\ rel.is_external = is_external
    /\ IF rel.is_external THEN rel.target_uri = uri ELSE rel.target_part = part

GetMatchingNone(d, reltype, part, uri, is_external) == 0

\* Relationships._get_matching: the first match in dict order, 0 for None
get_matching(d, reltype, part, uri, is_external) ==
    LET hits == {i \in 1..Len(d) : matches(d[i], reltype, part, uri, is_external)}
    IN IF hits = {} THEN 0 ELSE CHOOSE i \in hits : \A j \in hits : i <= j

\* Relationships._get_rel_of_type: the list `matching`
rels_of_type(d, reltype) == {i \in 1..Len(d) : d[i].reltype = reltype}

\* What the caller saw of the last call: its arguments, the rId or part it
\* returned, the exception it raised, whether it added a relationship, and
\* whether the call before it was the same call with the same arguments.
Called(op, reltype, part, uri, rId, raised, added) ==
    [op |-> op, reltype |-> reltype, part |-> part, uri |-> uri,
     rId |-> rId, raised |-> raised, added |-> added,
     again |-> /\ op \in {"relate_to", "relate_to_external"}
               /\ call.op = op
               /\ call.reltype = reltype
               /\ call.part = part
               /\ call.uri = uri]

\* Part.load_rel / OpcPackage.load_rel -> Relationships.add_relationship
load_rel(reltype, part, uri, rId, is_external) ==
    /\ rId \in Keys(rels) \/ Len(rels) < MaxRels
    /\ rels' = DictSet(rels, Relationship(rId, reltype, part, uri, is_external))
    /\ target_parts_by_rId' =
         IF is_external THEN target_parts_by_rId
         ELSE ByRIdSet(target_parts_by_rId, rId, part)
    /\ call' = Called("load_rel", "", NoPart, NoURI, rId, "none", TRUE)
    /\ UNCHANGED notRelsVars

\* Part.relate_to(target, reltype) -> Relationships.get_or_add
relate_to(part, reltype) ==
    LET i == get_matching(rels, reltype, part, NoURI, FALSE)
        rId == next_rId(rels)
    IN IF i # 0
       THEN /\ call' = Called("relate_to", reltype, part, NoURI, rels[i].rId,
                              "none", FALSE)
            /\ UNCHANGED <<rels, target_parts_by_rId, notRelsVars>>
       ELSE /\ Len(rels) < MaxRels
            /\ rels' = DictSet(rels, Relationship(rId, reltype, part, NoURI, FALSE))
            /\ target_parts_by_rId' = ByRIdSet(target_parts_by_rId, rId, part)
            /\ call' = Called("relate_to", reltype, part, NoURI, rId, "none", TRUE)
            /\ UNCHANGED notRelsVars

\* Part.relate_to(target, reltype, is_external=True)
\*   -> Relationships.get_or_add_ext_rel
relate_to_external(uri, reltype) ==
    LET i == get_matching(rels, reltype, NoPart, uri, TRUE)
        rId == next_rId(rels)
    IN IF i # 0
       THEN /\ call' = Called("relate_to_external", reltype, NoPart, uri,
                              rels[i].rId, "none", FALSE)
            /\ UNCHANGED <<rels, target_parts_by_rId, notRelsVars>>
       ELSE /\ Len(rels) < MaxRels
            /\ rels' = DictSet(rels, Relationship(rId, reltype, NoPart, uri, TRUE))
            /\ call' = Called("relate_to_external", reltype, NoPart, uri, rId,
                              "none", TRUE)
            /\ UNCHANGED <<target_parts_by_rId, notRelsVars>>

\* Part.drop_rel on a Part, whose _rel_ref_count is 0: del self.rels[rId],
\* a KeyError when rId is no key
drop_rel(rId) ==
    IF rId \in Keys(rels)
    THEN /\ rels' = DictDel(rels, rId)
         /\ call' = Called("drop_rel", "", NoPart, NoURI, rId, "none", FALSE)
         /\ UNCHANGED <<target_parts_by_rId, notRelsVars>>
    ELSE /\ call' = Called("drop_rel", "", NoPart, NoURI, rId, "KeyError", FALSE)
         /\ UNCHANGED <<rels, target_parts_by_rId, notRelsVars>>

\* _Relationship.target_part: a ValueError on an external relationship
target_part_raises(rel) == rel.is_external

\* Part.part_related_by -> Relationships.part_with_reltype
\*   -> _get_rel_of_type, then rel.target_part
part_with_reltype(reltype) ==
    LET matching == rels_of_type(rels, reltype)
        rel == rels[CHOOSE i \in matching : TRUE]
    IN /\ call' =
            IF Cardinality(matching) = 0
            THEN Called("part_with_reltype", reltype, NoPart, NoURI, "", "KeyError", FALSE)
            ELSE IF Cardinality(matching) > 1
            THEN Called("part_with_reltype", reltype, NoPart, NoURI, "", "ValueError", FALSE)
            ELSE IF target_part_raises(rel)
            THEN Called("part_with_reltype", reltype, NoPart, NoURI, rel.rId,
                        "ValueError", FALSE)
            ELSE Called("part_with_reltype", reltype, rel.target_part, NoURI,
                        rel.rId, "none", FALSE)
       /\ UNCHANGED <<rels, target_parts_by_rId, notRelsVars>>

InitRels == RelsIdle /\ WalkIdle /\ PkgIdle /\ TypesIdle /\ XmlIdle /\ ExtIdle

NextRels ==
    \/ \E reltype \in InternalRelTypes, part \in RelParts, rId \in LoadRIds :
         load_rel(reltype, part, NoURI, rId, FALSE)
    \/ \E reltype \in RelTypes, uri \in ExternalURIs, rId \in LoadRIds :
         load_rel(reltype, NoPart, uri, rId, TRUE)
    \/ \E reltype \in InternalRelTypes, part \in RelParts : relate_to(part, reltype)
    \/ \E reltype \in RelTypes, uri \in ExternalURIs : relate_to_external(uri, reltype)
    \/ \E rId \in LoadRIds : drop_rel(rId)
    \/ \E reltype \in RelTypes : part_with_reltype(reltype)

SpecRels == InitRels /\ [][NextRels]_vars

\* The relationships of `d` of `reltype` to the part `part`.
RelsToPart(d, reltype, part) ==
    {i \in 1..Len(d) :
        d[i].reltype = reltype /\ ~d[i].is_external /\ d[i].target_part = part}

\* The smallest n >= 1 for which "rId<n>" is no key of `d`.
SmallestFree(d) ==
    CHOOSE n \in 1..Len(RIdTable) :
        /\ FormatRId(n) \notin Keys(d)
        /\ \A m \in 1..n - 1 : FormatRId(m) \in Keys(d)

\* C4: whatever keys the collection holds, the id allocated for a new
\* relationship is "rId" followed by the smallest n >= 1 whose key is unused,
\* and the relationship is added under that key beside those already held.
C4_NextRIdFillsGaps ==
    [][(call'.op \in {"relate_to", "relate_to_external"} /\ call'.added)
        => /\ call'.rId = FormatRId(SmallestFree(rels))
           /\ Keys(rels') = Keys(rels) \cup {call'.rId}
           /\ Len(rels') = Len(rels) + 1]_vars

\* with {rId1, rId3} held, the id allocated was rId2
C4_Witness ==
    /\ call.op = "relate_to"
    /\ call.added
    /\ call.rId = "rId2"
    /\ Keys(rels) = {"rId1", "rId2", "rId3"}

\* C5 as amended: get-or-add (relate_to) returns the rId of a relationship of
\* that reltype to that part; called again with the same arguments it returns
\* the same rId and changes nothing; it adds a relationship only when the
\* collection held none of that reltype to that part, and the rId it then
\* returns is distinct from every rId the collection held.
C5_GetOrAddIdempotent ==
    [][call'.op = "relate_to"
        => LET before == RelsToPart(rels, call'.reltype, call'.part)
               after == RelsToPart(rels', call'.reltype, call'.part)
           IN /\ call'.rId \in {rels'[i].rId : i \in after}
              /\ call'.again => (call'.rId = call.rId /\ rels' = rels)
              /\ before # {} => rels' = rels
              /\ before = {} => /\ Cardinality(after) = 1
                                /\ call'.rId \notin Keys(rels)]_vars

\* relate_to was called twice with the same arguments
C5_Witness ==
    /\ call.op = "relate_to"
    /\ call.again
    /\ Cardinality(RelsToPart(rels, call.reltype, call.part)) = 1
    /\ Len(rels) >= 2

\* C5 as stated: calling relate_to twice with the same (reltype, part)
\* returns the same rId and leaves exactly one such relationship; calling it
\* with a different part returns an rId distinct from every rId already held.
C5_AsStated ==
    [][call'.op = "relate_to"
        => /\ call'.again =>
                /\ call'.rId = call.rId
                /\ Cardinality(RelsToPart(rels', call'.reltype, call'.part)) = 1
           /\ (call.op = "relate_to" /\ call.reltype = call'.reltype
                    /\ call.part # call'.part)
                => call'.rId \notin Keys(rels)]_vars

\* C6 as stated: part_with_reltype raises KeyError exactly when no
\* relationship of the reltype is held, ValueError exactly when more than one
\* is, and otherwise returns the target part of the single one.
C6_PartWithReltype ==
    call.op = "part_with_reltype" =>
        LET held == {i \in 1..Len(rels) : rels[i].reltype = call.reltype}
        IN /\ call.raised = "KeyError" <=> Cardinality(held) = 0
           /\ call.raised = "ValueError" <=> Cardinality(held) > 1
           /\ Cardinality(held) = 1 =>
                \A i \in held : /\ ~rels[i].is_external
                                /\ call.part = rels[i].target_part

(***************************************************************************)
(* Pack URIs, content types and the content-types item.                    *)
(*                                                                         *)
(* A PackURI is the sequence of its path segments: "/word/document.xml"    *)
(* is <<"word", "document.xml">> and PACKAGE_URI, "/", is <<>>.  A         *)
(* relative reference is a sequence of segments too, ".." among them.      *)
(***************************************************************************)
PACKAGE_URI == <<>>

\* CONTENT_TYPE
CT_BMP == "image/bmp"
CT_GIF == "image/gif"
CT_JPEG == "image/jpeg"
CT_MS_PHOTO == "image/vnd.ms-photo"
CT_OPC_RELATIONSHIPS == "application/vnd.openxmlformats-package.relationships+xml"
CT_PML_PRINTER_SETTINGS ==
    "application/vnd.openxmlformats-officedocument.presentationml.printerSettings"
CT_PNG == "image/png"
CT_SML_PRINTER_SETTINGS ==
    "application/vnd.openxmlformats-officedocument.spreadsheetml.printerSettings"
CT_SML_SHEET == "application/vnd.openxmlformats-officedocument.spreadsheetml.sheet"
CT_TIFF == "image/tiff"
CT_WML_DOCUMENT_MAIN ==
    "application/vnd.openxmlformats-officedocument.wordprocessingml.document.main+xml"
CT_WML_PRINTER_SETTINGS ==
    "application/vnd.openxmlformats-officedocument.wordprocessingml.printerSettings"
CT_XML == "application/xml"
CT_X_EMF == "image/x-emf"
CT_X_FONTDATA == "application/x-fontdata"
CT_X_WMF == "image/x-wmf"

\* RELATIONSHIP_TARGET_MODE
RTM_EXTERNAL == "External"
RTM_INTERNAL == "Internal"

\* RELATIONSHIP_TYPE
RT_CUSTOM_XML ==
    "http://schemas.openxmlformats.org/officeDocument/2006/relationships/customXml"
RT_HYPERLINK ==
    "http://schemas.openxmlformats.org/officeDocument/2006/relationships/hyperlink"
RT_IMAGE == "http://schemas.openxmlformats.org/officeDocument/2006/relationships/image"
RT_OFFICE_DOCUMENT ==
    "http://schemas.openxmlformats.org/officeDocument/2006/relationships/officeDocument"
RT_PRINTER_SETTINGS ==
    "http://schemas.openxmlformats.org/officeDocument/2006/relationships/printerSettings"

\* spec.default_content_types
default_content_types ==
    {<<"bin", CT_PML_PRINTER_SETTINGS>>, <<"bin", CT_SML_PRINTER_SETTINGS>>,
     <<"bin", CT_WML_PRINTER_SETTINGS>>, <<"bmp", CT_BMP>>, <<"emf", CT_X_EMF>>,
     <<"fntdata", CT_X_FONTDATA>>, <<"gif", CT_GIF>>, <<"jpe", CT_JPEG>>,
     <<"jpeg", CT_JPEG>>, <<"jpg", CT_JPEG>>, <<"png", CT_PNG>>,
     <<"rels", CT_OPC_RELATIONSHIPS>>, <<"tif", CT_TIFF>>, <<"tiff", CT_TIFF>>,
     <<"wdp", CT_MS_PHOTO>>, <<"wmf", CT_X_WMF>>, <<"xlsx", CT_SML_SHEET>>,
     <<"xml", CT_XML>>}

\* str.lower() on the path segments and extensions in use
lower(str) ==
    CASE str = "Document.xml" -> "document.xml"
      [] str = "printerSettings1.bin" -> "printersettings1.bin"
      [] str = "XML" -> "xml"
      [] OTHER -> str

\* str.lower() on a pack URI
lower_uri(uri) == [i \in 1..Len(uri) |-> lower(uri[i])]

\* posixpath.splitext(...)[1] of a filename, without its period
splitext(filename) ==
    CASE filename \in {"Document.xml", "document.xml"} -> "xml"
      [] filename = "image1.png" -> "png"
      [] filename = "printerSettings1.bin" -> "bin"
      [] OTHER -> ""

\* PackURI.ext
ext(partname) ==
    IF partname = <<>> THEN "" ELSE splitext(partname[Len(partname)])

\* PackURI.baseURI: posixpath.split(self)[0]
baseURI(partname) == SubSeq(partname, 1, Len(partname) - 1)

\* posixpath.commonprefix of two segment lists, as its length
commonprefix(a, b) ==
    CHOOSE n \in 0..Len(a) :
        /\ n <= Len(b)
        /\ SubSeq(a, 1, n) = SubSeq(b, 1, n)
        /\ (n < Len(a) /\ n < Len(b)) => a[n + 1] # b[n + 1]

\* PackURI.relative_ref
relative_ref(partname, base) ==
    IF base = PACKAGE_URI THEN partname
    ELSE LET i == commonprefix(base, partname)
         IN [k \in 1..(Len(base) - i) |-> ".."]
                \o SubSeq(partname, i + 1, Len(partname))

\* posixpath.abspath of an absolute path: ".." drops the segment before it
RECURSIVE abspath(_, _)
abspath(done, rest) ==
    IF rest = <<>> THEN done
    ELSE IF Head(rest) = ".."
         THEN abspath(SubSeq(done, 1, Len(done) - 1), Tail(rest))
         ELSE abspath(Append(done, Head(rest)), Tail(rest))

\* PackURI.from_rel_ref
from_rel_ref(base, ref) == abspath(<<>>, base \o ref)

\* dict.__setitem__, a dict being the function from its keys
setitem(d, key, value) ==
    [k \in DOMAIN d \cup {key} |-> IF k = key THEN value ELSE d[k]]

\* sorted(keys), `order` listing the keys in use in ascending str order
sorted(keys, order) == SelectSeq(order, LAMBDA k : k \in keys)

(***************************************************************************)
(* The parts a package is built from, in ascending order of partname.      *)
(* A part is its index here; its blob is its own.                          *)
(***************************************************************************)
Parts ==
    <<[partname |-> <<"word", "Document.xml">>, content_type |-> CT_XML,
       reltype |-> RT_CUSTOM_XML],
      [partname |-> <<"word", "document.xml">>,
       content_type |-> CT_WML_DOCUMENT_MAIN, reltype |-> RT_OFFICE_DOCUMENT],
      [partname |-> <<"word", "media", "image1.png">>, content_type |-> CT_PNG,
       reltype |-> RT_IMAGE],
      [partname |-> <<"word", "printerSettings1.bin">>,
       content_type |-> CT_WML_PRINTER_SETTINGS, reltype |-> RT_PRINTER_SETTINGS],
      [partname |-> <<"xl", "printerSettings1.bin">>,
       content_type |-> CT_SML_PRINTER_SETTINGS, reltype |-> RT_PRINTER_SETTINGS]>>

PkgParts == DOMAIN Parts
PkgSources == {PACKAGE} \cup PkgParts
partname(p) == Parts[p].partname
content_type(p) == Parts[p].content_type
blob(p) == p

\* the partname of a relationship source: PACKAGE_URI for the package
source_uri(s) == IF s = PACKAGE THEN PACKAGE_URI ELSE partname(s)

SortedPartnames == [p \in PkgParts |-> partname(p)]
SortedExtensions ==
    <<"bin", "bmp", "emf", "fntdata", "gif", "jpe", "jpeg", "jpg", "png", "rels",
      "tif", "tiff", "wdp", "wmf", "xlsx", "xml">>

(***************************************************************************)
(* PackageWriter.                                                          *)
(***************************************************************************)
\* OpcPackage.iter_parts, as the list it generates: walk_parts over the
\* relationships of `source` from position i on, `vis` the visited list.
RECURSIVE walk_parts(_, _, _, _)
walk_parts(g, source, i, vis) ==
    IF i > Len(g[source]) THEN vis
    ELSE LET rel == g[source][i]
         IN IF rel.is_external \/ InVisited(rel.target_part, vis)
            THEN walk_parts(g, source, i + 1, vis)
            ELSE walk_parts(g, source, i + 1,
                    walk_parts(g, rel.target_part, 1, Append(vis, rel.target_part)))

iter_parts(g) == walk_parts(g, PACKAGE, 1, <<>>)

\* _ContentTypesItem._add_content_type; _defaults is a CaseInsensitiveDict,
\* _overrides a dict
add_content_type(cti, p) ==
    IF <<lower(ext(partname(p))), content_type(p)>> \in default_content_types
    THEN [cti EXCEPT !.defaults = setitem(@, lower(ext(partname(p))), content_type(p))]
    ELSE [cti EXCEPT !.overrides = setitem(@, partname(p), content_type(p))]

RECURSIVE add_content_types(_, _)
add_content_types(cti, parts) ==
    IF parts = <<>> THEN cti
    ELSE add_content_types(add_content_type(cti, Head(parts)), Tail(parts))

\* _ContentTypesItem.from_parts
from_parts(parts) ==
    add_content_types(
        [defaults |-> setitem(setitem(<<>>, lower("rels"), CT_OPC_RELATIONSHIPS),
                              lower("xml"), CT_XML),
         overrides |-> <<>>],
        parts)

\* _ContentTypesItem._element: Default elements sorted by extension, then
\* Override elements sorted by partname
element(cti) ==
    LET exts == sorted(DOMAIN cti.defaults, SortedExtensions)
        names == sorted(DOMAIN cti.overrides, SortedPartnames)
    IN [defaults |-> [i \in 1..Len(exts) |->
                        [extension |-> exts[i], content_type |-> cti.defaults[exts[i]]]],
        overrides |-> [i \in 1..Len(names) |->
                        [partname |-> names[i], content_type |-> cti.overrides[names[i]]]]]

\* _Relationship.target_ref; an external target is the one-segment <<uri>>
target_ref(rel, base) ==
    IF rel.is_external THEN <<rel.target_uri>>
    ELSE relative_ref(partname(rel.target_part), base)

\* Relationships.xml: one Relationship element per value, in dict order
rels_xml(g, s) ==
    [i \in 1..Len(g[s]) |->
        [rId |-> g[s][i].rId,
         reltype |-> g[s][i].reltype,
         target_ref |-> target_ref(g[s][i], baseURI(source_uri(s))),
         target_mode |-> IF g[s][i].is_external THEN RTM_EXTERNAL ELSE RTM_INTERNAL]]

\* PackageWriter.write: the content types stream, the package rels item, and
\* for each part its blob and, when it has relationships, its rels item.
\* A rels item is filed here under the partname of its source.
write(g, parts) ==
    LET written == {s \in Range(parts) : Len(g[s]) > 0} \cup {PACKAGE}
    IN [content_types |-> element(from_parts(parts)),
        rels |-> [u \in {source_uri(s) : s \in written} |->
                    rels_xml(g, CHOOSE s \in written : source_uri(s) = u)],
        blobs |-> [u \in {partname(p) : p \in Range(parts)} |->
                    blob(CHOOSE p \in Range(parts) : partname(p) = u)]]

(***************************************************************************)
(* PackageReader and Unmarshaller.                                         *)
(***************************************************************************)
\* _ContentTypeMap.__init__: two CaseInsensitiveDicts
ContentTypeMap == [overrides |-> <<>>, defaults |-> <<>>]

\* _ContentTypeMap._add_override
add_override(m, o) ==
    [m EXCEPT !.overrides = setitem(@, lower_uri(o.partname), o.content_type)]

\* _ContentTypeMap._add_default
add_default(m, d) ==
    [m EXCEPT !.defaults = setitem(@, lower(d.extension), d.content_type)]

RECURSIVE add_overrides(_, _)
add_overrides(m, os) ==
    IF os = <<>> THEN m ELSE add_overrides(add_override(m, Head(os)), Tail(os))

RECURSIVE add_defaults(_, _)
add_defaults(m, ds) ==
    IF ds = <<>> THEN m ELSE add_defaults(add_default(m, Head(ds)), Tail(ds))

\* _ContentTypeMap.from_xml: the Override elements, then the Default elements
from_xml(xml) == add_defaults(add_overrides(ContentTypeMap, xml.overrides), xml.defaults)

Resolved(via, ct) == [raised |-> "none", via |-> via, content_type |-> ct]
Unresolved == [raised |-> "KeyError", via |-> "none", content_type |-> ""]

GetItemDefaultsFirst(m, uri) ==
    IF lower(ext(uri)) \in DOMAIN m.defaults
    THEN Resolved("default", m.defaults[lower(ext(uri))])
    ELSE IF lower_uri(uri) \in DOMAIN m.overrides
    THEN Resolved("override", m.overrides[lower_uri(uri)])
    ELSE Unresolved

\* _ContentTypeMap.__getitem__
getitem(m, uri) ==
    IF lower_uri(uri) \in DOMAIN m.overrides
    THEN Resolved("override", m.overrides[lower_uri(uri)])
    ELSE IF lower(ext(uri)) \in DOMAIN m.defaults
    THEN Resolved("default", m.defaults[lower(ext(uri))])
    ELSE Unresolved

\* PackageReader._srels_for: no relationships when the rels item is missing
srels_for(ph, uri) ==
    IF uri \in DOMAIN ph.rels
    THEN [i \in 1..Len(ph.rels[uri]) |->
            [baseURI |-> baseURI(uri),
             rId |-> ph.rels[uri][i].rId,
             reltype |-> ph.rels[uri][i].reltype,
             target_mode |-> ph.rels[uri][i].target_mode,
             target_ref |-> ph.rels[uri][i].target_ref]]
    ELSE <<>>

\* _SerializedRelationship.is_external
is_external(srel) == srel.target_mode = RTM_EXTERNAL

\* _SerializedRelationship.target_partname
target_partname(srel) == from_rel_ref(srel.baseURI, srel.target_ref)

\* Whether the partname is the first one visited, whatever came after it.
FirstVisitedIs(name, visited_partnames) ==
    visited_partnames # <<>> /\ visited_partnames[1] = name

\* PackageReader._walk_phys_parts: `partname in visited_partnames`
in_visited_partnames(name, visited_partnames) == name \in Range(visited_partnames)

\* PackageReader._walk_phys_parts over `srels` from position i on;
\* acc.visited is visited_partnames, acc.sparts what was yielded
RECURSIVE walk_phys_parts(_, _, _, _)
walk_phys_parts(ph, srels, i, acc) ==
    IF i > Len(srels) THEN acc
    ELSE IF \/ is_external(srels[i])
            \/ in_visited_partnames(target_partname(srels[i]), acc.visited)
    THEN walk_phys_parts(ph, srels, i + 1, acc)
    ELSE LET name == target_partname(srels[i])
             part_srels == srels_for(ph, name)
             spart == [partname |-> name, blob |-> ph.blobs[name],
                       reltype |-> srels[i].reltype, srels |-> part_srels]
         IN walk_phys_parts(ph, srels, i + 1,
                walk_phys_parts(ph, part_srels, 1,
                    [visited |-> Append(acc.visited, name),
                     sparts |-> Append(acc.sparts, spart)]))

\* PackageReader._load_serialized_parts
load_serialized_parts(ph, pkg_srels, content_types) ==
    LET walked == walk_phys_parts(ph, pkg_srels, 1,
                                  [visited |-> <<>>, sparts |-> <<>>]).sparts
    IN [i \in 1..Len(walked) |->
          [partname |-> walked[i].partname,
           content_type |-> getitem(content_types, walked[i].partname).content_type,
           reltype |-> walked[i].reltype,
           blob |-> walked[i].blob,
           srels |-> walked[i].srels]]

\* PackageReader.from_file
from_file(ph) ==
    LET pkg_srels == srels_for(ph, PACKAGE_URI)
    IN [pkg_srels |-> pkg_srels,
        sparts |-> load_serialized_parts(ph, pkg_srels, from_xml(ph.content_types))]

\* Unmarshaller._unmarshal_parts: the parts by partname
unmarshal_parts(reader) ==
    [u \in {reader.sparts[i].partname : i \in 1..Len(reader.sparts)} |->
        LET i == CHOOSE j \in 1..Len(reader.sparts) :
                    /\ reader.sparts[j].partname = u
                    /\ \A k \in j + 1..Len(reader.sparts) : reader.sparts[k].partname # u
        IN [content_type |-> reader.sparts[i].content_type,
            blob |-> reader.sparts[i].blob]]

\* source.load_rel(srel.reltype, target, srel.rId, srel.is_external) for
\* each of `srels` in turn; a loaded part is named by its partname
RECURSIVE load_rels(_, _)
load_rels(d, srels) ==
    IF srels = <<>> THEN d
    ELSE LET srel == Head(srels)
             rel == [rId |-> srel.rId,
                     reltype |-> srel.reltype,
                     target_partname |-> IF is_external(srel) THEN PACKAGE_URI
                                         ELSE target_partname(srel),
                     target_uri |-> IF is_external(srel) THEN srel.target_ref[1]
                                    ELSE NoURI,
                     is_external |-> is_external(srel)]
         IN load_rels(DictSet(d, rel), Tail(srels))

\* Unmarshaller._unmarshal_relationships: the Relationships of the package
\* and of each part, by the partname of the source
unmarshal_relationships(reader) ==
    [u \in {PACKAGE_URI} \cup {reader.sparts[i].partname : i \in 1..Len(reader.sparts)} |->
        IF u = PACKAGE_URI THEN load_rels(<<>>, reader.pkg_srels)
        ELSE load_rels(<<>>, reader.sparts[CHOOSE i \in 1..Len(reader.sparts) :
                                              reader.sparts[i].partname = u].srels)]

\* Unmarshaller.unmarshal
unmarshal(reader) ==
    [parts |-> unmarshal_parts(reader), rels |-> unmarshal_relationships(reader)]

(***************************************************************************)
(* SpecPkg: a package whose root holds at most MaxRootRels relationships   *)
(* and whose parts hold at most MaxPartRels between them, to parts of      *)
(* Parts or to an external URI, is saved and the saved package opened.     *)
(***************************************************************************)
PkgTargets == PkgParts \cup {NoPart}     \* NoPart: an external relationship

PkgRelTo(n, t) ==
    IF t = NoPart
    THEN Relationship(FormatRId(n), RT_HYPERLINK, NoPart, "http://a", TRUE)
    ELSE Relationship(FormatRId(n), Parts[t].reltype, t, NoURI, FALSE)

PackageOf(rootTargets, edges) ==
    [s \in PkgSources |->
        LET ts == SetToSeq(IF s = PACKAGE THEN rootTargets
                           ELSE {t \in PkgTargets : <<s, t>> \in edges})
        IN [n \in 1..Len(ts) |-> PkgRelTo(n, ts[n])]]

InitPkg ==
    /\ \E rootTargets \in SubsetsUpTo(PkgTargets, MaxRootRels),
          edges \in SubsetsUpTo(PkgParts \X PkgTargets, MaxPartRels) :
            pkg = PackageOf(rootTargets, edges)
    /\ pstate = "built"
    /\ phys = <<>>
    /\ opened = <<>>
    /\ WalkIdle
    /\ RelsIdle
    /\ TypesIdle
    /\ XmlIdle
    /\ ExtIdle

\* OpcPackage.save
save ==
    /\ pstate = "built"
    /\ pstate' = "saved"
    /\ phys' = write(pkg, iter_parts(pkg))
    /\ UNCHANGED <<pkg, opened>>
    /\ UNCHANGED notPkgVars

\* OpcPackage.open on the saved package
open ==
    /\ pstate = "saved"
    /\ pstate' = "opened"
    /\ opened' = unmarshal(from_file(phys))
    /\ UNCHANGED <<pkg, phys>>
    /\ UNCHANGED notPkgVars

NextPkg ==
    \/ save
    \/ open

SpecPkg == InitPkg /\ [][NextPkg]_vars

\* The parts reachable from the package through internal relationships.
PkgSuccessors(s) ==
    {pkg[s][i].target_part : i \in {j \in 1..Len(pkg[s]) : ~pkg[s][j].is_external}}

RECURSIVE PkgClosure(_)
PkgClosure(S) ==
    LET next == S \cup UNION {PkgSuccessors(s) : s \in S \cup {PACKAGE}}
    IN IF next = S THEN S ELSE PkgClosure(next)

\* The relationships of source s: rId, reltype, target partname or external
\* URI, external flag.
PkgRelsOf(s) ==
    {[rId |-> pkg[s][i].rId,
      reltype |-> pkg[s][i].reltype,
      target_partname |-> IF pkg[s][i].is_external THEN PACKAGE_URI
                          ELSE partname(pkg[s][i].target_part),
      target_uri |-> pkg[s][i].target_uri,
      is_external |-> pkg[s][i].is_external] : i \in 1..Len(pkg[s])}

\* C1 as stated: the package opened from the saved output has the partnames
\* reachable from the root of the original, each with the same content type
\* and blob, and the package and every part have the same relationships.
C1_RoundTripEquivalent ==
    pstate = "opened" =>
        /\ DOMAIN opened.parts = {partname(p) : p \in PkgClosure({})}
        /\ \A p \in PkgClosure({}) :
                opened.parts[partname(p)] =
                    [content_type |-> content_type(p), blob |-> blob(p)]
        /\ \A s \in PkgClosure({}) \cup {PACKAGE} :
                Range(opened.rels[source_uri(s)]) = PkgRelsOf(s)

\* C2 as stated: the manifest the writer derives resolves the partname of
\* every part written to that part's own content type; a part whose
\* (extension, content type) pair is in default_content_types has a Default
\* keyed by its extension and every other part an Override keyed by its
\* partname.
C2_ManifestResolvesEveryPart ==
    pstate = "saved" =>
        \A p \in PkgClosure({}) :
            /\ getitem(from_xml(phys.content_types), partname(p)).content_type
                    = content_type(p)
            /\ IF <<ext(partname(p)), content_type(p)>> \in default_content_types
               THEN \E d \in Range(phys.content_types.defaults) :
                        d.extension = ext(partname(p))
               ELSE \E o \in Range(phys.content_types.overrides) :
                        o.partname = partname(p)

(***************************************************************************)
(* SpecTypes: a [Content_Types].xml of at most MaxOverrides Override and   *)
(* MaxDefaults Default elements is read into a _ContentTypeMap and         *)
(* partnames are resolved against the map.                                 *)
(***************************************************************************)
TypesPartnames ==
    {<<"word", "Document.xml">>, <<"word", "document.xml">>,
     <<"word", "media", "image1.png">>}
TypesExtensions == {"xml", "XML", "png"}

OverrideElements ==
    {[partname |-> u, content_type |-> ct] :
        u \in TypesPartnames, ct \in {CT_WML_DOCUMENT_MAIN, CT_XML}}
DefaultElements ==
    {[extension |-> e, content_type |-> ct] :
        e \in TypesExtensions, ct \in {CT_XML, CT_PNG}}

SeqsUpTo(S, n) == UNION {[1..k -> S] : k \in 0..n}

NoLookup == [partname |-> PACKAGE_URI, raised |-> "none", via |-> "none", content_type |-> ""]

InitTypes ==
    /\ \E os \in SeqsUpTo(OverrideElements, MaxOverrides),
          ds \in SeqsUpTo(DefaultElements, MaxDefaults) :
            types_xml = [overrides |-> os, defaults |-> ds]
    /\ ct_map = ContentTypeMap
    /\ lookup = NoLookup
    /\ WalkIdle
    /\ RelsIdle
    /\ PkgIdle
    /\ XmlIdle
    /\ ExtIdle

\* _ContentTypeMap.from_xml(content_types_xml)
ContentTypeMap_from_xml ==
    /\ ct_map' = from_xml(types_xml)
    /\ lookup' = NoLookup
    /\ UNCHANGED types_xml
    /\ UNCHANGED notTypesVars

\* content_types[partname]
ContentTypeMap_getitem(uri) ==
    /\ lookup' = [partname |-> uri,
                  raised |-> getitem(ct_map, uri).raised,
                  via |-> getitem(ct_map, uri).via,
                  content_type |-> getitem(ct_map, uri).content_type]
    /\ UNCHANGED <<types_xml, ct_map>>
    /\ UNCHANGED notTypesVars

NextTypes ==
    \/ ContentTypeMap_from_xml
    \/ \E uri \in TypesPartnames : ContentTypeMap_getitem(uri)

SpecTypes == InitTypes /\ [][NextTypes]_vars

\* The content types of the Override elements of the manifest read whose
\* partname satisfies Test, in document order.
OverridesFor(Test(_)) ==
    SelectSeq(types_xml.overrides, LAMBDA o : Test(o.partname))
DefaultsFor(Test(_)) ==
    SelectSeq(types_xml.defaults, LAMBDA d : Test(d.extension))

Last(seq) == seq[Len(seq)]

\* the map holds what from_xml made of the manifest
MapRead == ct_map = from_xml(types_xml) /\ lookup.partname # PACKAGE_URI

\* C7 as amended: resolving a partname returns the content type of the last
\* Override of the manifest whose partname equals it ignoring case, whatever
\* Defaults the manifest holds; the Default for the partname's extension
\* (ignoring case, the last one) is used only when no Override matches the
\* partname ignoring case, and the lookup fails when neither exists.
C7_OverrideBeatsDefault ==
    MapRead =>
        LET os == OverridesFor(LAMBDA u : lower_uri(u) = lower_uri(lookup.partname))
            ds == DefaultsFor(LAMBDA e : lower(e) = lower(ext(lookup.partname)))
        IN /\ os # <<>> => /\ lookup.via = "override"
                           /\ lookup.content_type = Last(os).content_type
           /\ (os = <<>> /\ ds # <<>>) => /\ lookup.via = "default"
                                         /\ lookup.content_type = Last(ds).content_type
           /\ (os = <<>> /\ ds = <<>>) => lookup.raised = "KeyError"

\* a manifest with both a Default for the extension and an Override for the
\* exact partname was read and the partname resolved to the Override's type
C7_Witness ==
    /\ MapRead
    /\ \E o \in Range(types_xml.overrides), d \in Range(types_xml.defaults) :
        /\ o.partname = lookup.partname
        /\ d.extension = ext(lookup.partname)
        /\ d.content_type # o.content_type
        /\ lookup.content_type = o.content_type

\* C7 as stated: with a Default for the partname's extension and an Override
\* for that exact partname in the manifest, resolving returns the content
\* type of an Override for that exact partname; the Default is used only
\* when no Override is for the partname.
C7_AsStated ==
    MapRead =>
        LET os == OverridesFor(LAMBDA u : u = lookup.partname)
            ds == DefaultsFor(LAMBDA e : e = ext(lookup.partname))
        IN /\ (os # <<>> /\ ds # <<>>) =>
                lookup.content_type \in {o.content_type : o \in Range(os)}
           /\ lookup.via = "default" => os = <<>>

(***************************************************************************)
(* xmlchemy: element classes and the methods generated for their declared  *)
(* children.  An element is the sequence of its children's tags.           *)
(***************************************************************************)
\* CT_TcPr._tag_seq
CT_TcPr_tag_seq ==
    <<"w:cnfStyle", "w:tcW", "w:gridSpan", "w:hMerge", "w:vMerge", "w:tcBorders",
      "w:shd", "w:noWrap", "w:tcMar", "w:textDirection", "w:tcFitText", "w:vAlign",
      "w:hideMark", "w:headers", "w:cellIns", "w:cellDel", "w:cellMerge",
      "w:tcPrChange">>

\* CT_SectPr._tag_seq
CT_SectPr_tag_seq ==
    <<"w:footnotePr", "w:endnotePr", "w:type", "w:pgSz", "w:pgMar", "w:paperSrc",
      "w:pgBorders", "w:lnNumType", "w:pgNumType", "w:cols", "w:formProt",
      "w:vAlign", "w:noEndnote", "w:titlePg", "w:textDirection", "w:bidi",
      "w:rtlGutter", "w:docGrid", "w:printerSettings", "w:sectPrChange">>

\* seq[k:]
slice(seq, k) == SubSeq(seq, k + 1, Len(seq))

\* _BaseChildElement.__init__(nsptagname, successors)
ZeroOrOne(nsptagname, succ) ==
    [nsptagname |-> nsptagname, kind |-> "ZeroOrOne", successors |-> succ]
ZeroOrMore(nsptagname, succ) ==
    [nsptagname |-> nsptagname, kind |-> "ZeroOrMore", successors |-> succ]
Choice(nsptagname, succ) ==
    [nsptagname |-> nsptagname, kind |-> "Choice", successors |-> succ]

\* ZeroOrOneChoice(choices, successors).  No element class of the source
\* declares a choice group; CT_Choice is a class declaring this one.
member_nsptagnames == <<"a:noFill", "a:solidFill", "a:gradFill">>
group_successors == <<"a:ln">>

\* the child elements each class declares
Declared(cls) ==
    CASE cls = "CT_TcPr" ->
            {ZeroOrOne("w:tcW", slice(CT_TcPr_tag_seq, 2)),
             ZeroOrOne("w:gridSpan", slice(CT_TcPr_tag_seq, 3)),
             ZeroOrOne("w:vMerge", slice(CT_TcPr_tag_seq, 5)),
             ZeroOrOne("w:vAlign", slice(CT_TcPr_tag_seq, 12))}
      [] cls = "CT_SectPr" ->
            {ZeroOrMore("w:headerReference", CT_SectPr_tag_seq),
             ZeroOrMore("w:footerReference", CT_SectPr_tag_seq),
             ZeroOrOne("w:type", slice(CT_SectPr_tag_seq, 3)),
             ZeroOrOne("w:pgSz", slice(CT_SectPr_tag_seq, 4)),
             ZeroOrOne("w:pgMar", slice(CT_SectPr_tag_seq, 5)),
             ZeroOrOne("w:titlePg", slice(CT_SectPr_tag_seq, 14))}
      [] cls = "CT_Choice" ->
            {Choice(m, group_successors) : m \in Range(member_nsptagnames)}
      [] OTHER -> {}

tag_seq(cls) ==
    CASE cls = "CT_TcPr" -> CT_TcPr_tag_seq
      [] cls = "CT_SectPr" -> CT_SectPr_tag_seq
      [] OTHER -> <<>>

TagsOf(cls, kind) == {d.nsptagname : d \in {e \in Declared(cls) : e.kind = kind}}

\* self._successors of the declaration of `tag`
successors(cls, tag) == (CHOOSE d \in Declared(cls) : d.nsptagname = tag).successors

\* self.find(qn(tagname)): the position of the first child with the tag,
\* 0 for None
find(ch, tagname) ==
    IF \E i \in 1..Len(ch) : ch[i] = tagname
    THEN CHOOSE i \in 1..Len(ch) :
            ch[i] = tagname /\ \A j \in 1..i - 1 : ch[j] # tagname
    ELSE 0

\* BaseOxmlElement.first_child_found_in
RECURSIVE first_child_found_in(_, _)
first_child_found_in(ch, tagnames) ==
    IF tagnames = <<>> THEN 0
    ELSE IF find(ch, Head(tagnames)) # 0 THEN find(ch, Head(tagnames))
    ELSE first_child_found_in(ch, Tail(tagnames))

\* successor.addprevious(elm)
addprevious(ch, successor, elm) ==
    SubSeq(ch, 1, successor - 1) \o <<elm>> \o SubSeq(ch, successor, Len(ch))

InsertElementLast(ch, elm, tagnames) == Append(ch, elm)

\* BaseOxmlElement.insert_element_before
insert_element_before(ch, elm, tagnames) ==
    IF first_child_found_in(ch, tagnames) # 0
    THEN addprevious(ch, first_child_found_in(ch, tagnames), elm)
    ELSE Append(ch, elm)

\* BaseOxmlElement.remove_all
remove_all(ch, tagnames) == SelectSeq(ch, LAMBDA t : t \notin Range(tagnames))

NoXCall == [op |-> "none", tag |-> "", inserted |-> FALSE]
XCalled(op, tag, inserted) == [op |-> op, tag |-> tag, inserted |-> inserted]

\* _add_x(): _new_x(), then _insert_x(child)
add_child(tag) ==
    /\ Len(children) <= MaxChildren
    /\ children' = insert_element_before(children, tag, successors(ecls, tag))
    /\ xcall' = XCalled("add", tag, TRUE)
    /\ UNCHANGED ecls
    /\ UNCHANGED notXmlVars

\* get_or_add_x()
get_or_add_child(tag) ==
    /\ IF find(children, tag) = 0
       THEN /\ children' = insert_element_before(children, tag, successors(ecls, tag))
            /\ xcall' = XCalled("get_or_add", tag, TRUE)
       ELSE /\ children' = children
            /\ xcall' = XCalled("get_or_add", tag, FALSE)
    /\ UNCHANGED ecls
    /\ UNCHANGED notXmlVars

\* _remove_x()
remove_child(tag) ==
    /\ children' = remove_all(children, <<tag>>)
    /\ xcall' = XCalled("remove", tag, FALSE)
    /\ UNCHANGED ecls
    /\ UNCHANGED notXmlVars

\* _remove_<group>()
remove_choice_group ==
    /\ children' = remove_all(children, member_nsptagnames)
    /\ xcall' = XCalled("remove_group", "", FALSE)
    /\ UNCHANGED ecls
    /\ UNCHANGED notXmlVars

\* get_or_change_to_x()
get_or_change_to_child(tag) ==
    /\ IF find(children, tag) # 0
       THEN /\ children' = children
            /\ xcall' = XCalled("get_or_change_to", tag, FALSE)
       ELSE /\ children' = insert_element_before(
                                remove_all(children, member_nsptagnames),
                                tag, successors(ecls, tag))
            /\ xcall' = XCalled("get_or_change_to", tag, TRUE)
    /\ UNCHANGED ecls
    /\ UNCHANGED notXmlVars

(***************************************************************************)
(* SpecXml: a CT_TcPr or CT_SectPr element parsed with at most MaxForeign  *)
(* children the class declares no methods for, in content-model order, on  *)
(* which the generated methods of its declared children are called.        *)
(***************************************************************************)
Undeclared(cls) == Range(tag_seq(cls)) \ {d.nsptagname : d \in Declared(cls)}

InitXml ==
    /\ \E cls \in {"CT_TcPr", "CT_SectPr"} :
        \E foreign \in SubsetsUpTo(Undeclared(cls), MaxForeign) :
            /\ ecls = cls
            /\ children = SelectSeq(tag_seq(cls), LAMBDA t : t \in foreign)
    /\ xcall = NoXCall
    /\ WalkIdle
    /\ RelsIdle
    /\ PkgIdle
    /\ TypesIdle
    /\ ExtIdle

NextXml ==
    \/ \E tag \in TagsOf(ecls, "ZeroOrOne") : get_or_add_child(tag)
    \/ \E tag \in TagsOf(ecls, "ZeroOrOne") : remove_child(tag)
    \/ \E tag \in TagsOf(ecls, "ZeroOrMore") : add_child(tag)

SpecXml == InitXml /\ [][NextXml]_vars

\* The place of a tag in the content model of its class: its position in
\* _tag_seq; the header and footer references of CT_SectPr come first.
Rank(cls, tag) ==
    IF \E i \in 1..Len(tag_seq(cls)) : tag_seq(cls)[i] = tag
    THEN CHOOSE i \in 1..Len(tag_seq(cls)) : tag_seq(cls)[i] = tag
    ELSE 0

InContentModelOrder(cls, ch) ==
    \A i, j \in 1..Len(ch) : i < j => Rank(cls, ch[i]) <= Rank(cls, ch[j])

\* C8: on an element whose children are in content-model order, whichever
\* of its declared children they include, inserting an absent declared child
\* through its generated inserter adds that child and leaves the children
\* in content-model order.
C8_InserterKeepsOrder ==
    [][(xcall'.inserted /\ InContentModelOrder(ecls, children))
        => /\ InContentModelOrder(ecls, children')
           /\ Len(children') = Len(children) + 1
           /\ remove_all(children', <<xcall'.tag>>)
                = remove_all(children, <<xcall'.tag>>)]_vars

\* a declared child was inserted between an earlier and a later sibling
C8_Witness ==
    /\ xcall.op = "get_or_add"
    /\ xcall.inserted
    /\ \E i \in 2..Len(children) - 1 :
        /\ children[i] = xcall.tag
        /\ Rank(ecls, children[i - 1]) < Rank(ecls, children[i])
        /\ Rank(ecls, children[i]) < Rank(ecls, children[i + 1])
        /\ children[i + 1] \in TagsOf(ecls, "ZeroOrOne")

(***************************************************************************)
(* SpecParsed: a CT_TcPr or CT_Choice element parsed with at most          *)
(* MaxChildren children in any order, on which the generated methods are   *)
(* called.                                                                 *)
(***************************************************************************)
ParsedTags(cls) ==
    CASE cls = "CT_TcPr" -> TagsOf(cls, "ZeroOrOne") \cup {"w:shd"}
      [] cls = "CT_Choice" -> TagsOf(cls, "Choice") \cup Range(group_successors)
      [] OTHER -> {}

InitParsed ==
    /\ \E cls \in {"CT_TcPr", "CT_Choice"} :
        \E ch \in SeqsUpTo(ParsedTags(cls), MaxChildren) :
            /\ ecls = cls
            /\ children = ch
    /\ xcall = NoXCall
    /\ WalkIdle
    /\ RelsIdle
    /\ PkgIdle
    /\ TypesIdle
    /\ ExtIdle

NextParsed ==
    \/ \E tag \in TagsOf(ecls, "ZeroOrOne") \cup TagsOf(ecls, "Choice") : add_child(tag)
    \/ \E tag \in TagsOf(ecls, "Choice") : get_or_change_to_child(tag)
    \/ ecls = "CT_Choice" /\ remove_choice_group

SpecParsed == InitParsed /\ [][NextParsed]_vars

\* The position of the first child, in child order, whose tag is among
\* `tagnames`; 0 when there is none.
FirstChildAmong(ch, tagnames) ==
    IF \E i \in 1..Len(ch) : ch[i] \in Range(tagnames)
    THEN CHOOSE i \in 1..Len(ch) :
            ch[i] \in Range(tagnames) /\ \A j \in 1..i - 1 : ch[j] \notin Range(tagnames)
    ELSE 0

\* C9 as stated: whatever the children, the generated inserter places the
\* new child immediately before the first child, in child order, whose tag
\* is in the successors of the inserted tag, and appends it when no child
\* has a successor tag.
C9_InsertBeforeFirstSuccessor ==
    [][(xcall'.inserted /\ xcall'.op = "add")
        => LET k == FirstChildAmong(children, successors(ecls, xcall'.tag))
           IN children' = IF k = 0 THEN Append(children, xcall'.tag)
                          ELSE addprevious(children, k, xcall'.tag)]_vars

\* C10 as stated: after get_or_change_to_x, x is the only member of the
\* choice group among the children.
C10_OnlyMemberPresent ==
    xcall.op = "get_or_change_to" =>
        {t \in Range(children) : t \in Range(member_nsptagnames)} = {xcall.tag}

(***************************************************************************)
(* Table cell span algebra: CT_Row, CT_Tc and Table.cell / _Cell.merge.    *)
(* A table is its column count (the w:gridCol elements) and its w:tr rows; *)
(* a row is the sequence of its w:tc cells; a cell is                      *)
(*   [id, grid_span, vMerge, width, content]                               *)
(* where `content` is the sequence of its block items, EmptyP for an empty *)
(* paragraph and n > 0 for a paragraph with runs.  A cell of the current   *)
(* table is named by its position <<r, i>>: row r (from 1), i-th w:tc of   *)
(* that row.  Grid offsets and the row indexes returned by top and bottom  *)
(* count from 0 as in the source.                                          *)
(***************************************************************************)
MaxMerges == 2      \* merge calls made on one table (SpecTbl)

\* the shapes (rows, cols) of the tables CT_Tbl.new_tbl builds here
Shapes == {<<2, 3>>, <<3, 3>>}

None == "None"
ST_Merge_CONTINUE == "continue"
ST_Merge_RESTART == "restart"
EmptyP == 0

\* CT_Tc._is_empty and the other block-item operations see this list
iter_block_items(tc) == tc.content

\* CT_Tbl._tcs_xml: a cell with a w:tcW of one column width and one w:p;
\* `text` is the paragraph once the caller filled it.  The cells a merge
\* emptied hold <<EmptyP>>.
new_tc(id, text) ==
    [id |-> id, grid_span |-> 1, vMerge |-> None, width |-> 1, content |-> <<text>>]

\* CT_Tbl.new_tbl(rows, cols, width), each cell's paragraph then filled with
\* a text of its own
new_tbl(nrows, ncols) ==
    [col_count |-> ncols,
     tr_lst |-> [r \in 1..nrows |->
                    [c \in 1..ncols |->
                        new_tc((r - 1) * ncols + c, (r - 1) * ncols + c)]]]

\* CT_Row.grid_before: no w:trPr in the rows new_tbl writes
grid_before(tr) == 0

RECURSIVE SumGridSpans(_, _)
SumGridSpans(tr, n) ==
    IF n = 0 THEN 0 ELSE SumGridSpans(tr, n - 1) + tr[n].grid_span

\* CT_Tc.grid_offset
grid_offset(t, pos) ==
    grid_before(t[pos[1]]) + SumGridSpans(t[pos[1]], pos[2] - 1)

\* CT_Tc.left, CT_Tc.right
left(t, pos) == grid_offset(t, pos)
right(t, pos) == grid_offset(t, pos) + t[pos[1]][pos[2]].grid_span

\* CT_Row.tc_at_grid_offset: the loop from the i-th w:tc on; NoTc is the
\* ValueError raised after the loop
NoTc == 0
RECURSIVE TcAtFrom(_, _, _)
TcAtFrom(tr, i, remaining_offset) ==
    IF i > Len(tr) THEN NoTc
    ELSE IF remaining_offset < 0 THEN NoTc
    ELSE IF remaining_offset = 0 THEN i
    ELSE TcAtFrom(tr, i + 1, remaining_offset - tr[i].grid_span)

tc_at_grid_offset(tr, offset) == TcAtFrom(tr, 1, offset - grid_before(tr))

\* the value of a row-index property whose evaluation raises ValueError
Raises == -1

\* CT_Tc.top, through _tc_above and _tr_above
RECURSIVE top(_, _)
top(t, pos) ==
    LET tc == t[pos[1]][pos[2]] IN
    IF tc.vMerge = None \/ tc.vMerge = ST_Merge_RESTART THEN pos[1] - 1
    ELSE IF pos[1] = 1 THEN Raises
    ELSE LET j == tc_at_grid_offset(t[pos[1] - 1], grid_offset(t, pos))
         IN IF j = NoTc THEN Raises ELSE top(t, <<pos[1] - 1, j>>)

\* CT_Tc.bottom, through _tc_below and _tr_below
RECURSIVE bottom(_, _)
bottom(t, pos) ==
    LET tc == t[pos[1]][pos[2]] IN
    IF tc.vMerge = None THEN pos[1]
    ELSE IF pos[1] = Len(t) THEN pos[1]
    ELSE LET j == tc_at_grid_offset(t[pos[1] + 1], grid_offset(t, pos))
         IN IF j = NoTc THEN Raises
            ELSE IF t[pos[1] + 1][j].vMerge = ST_Merge_CONTINUE
                 THEN bottom(t, <<pos[1] + 1, j>>)
                 ELSE pos[1]

\* the outcome of a call: what it raised, with the message
Ok == [raised |-> "none", msg |-> ""]
InvalidSpanError(msg) == [raised |-> "InvalidSpanError", msg |-> msg]
ValueError(msg) == [raised |-> "ValueError", msg |-> msg]
AssertionError == [raised |-> "AssertionError", msg |-> ""]

\* CT_Tc._span_dimensions.raise_on_inverted_L; bottom is evaluated only
\* when the tops are equal
raise_on_inverted_L(t, a, b) ==
    LET a_top == top(t, a)
        b_top == top(t, b)
        a_bottom == bottom(t, a)
        b_bottom == bottom(t, b)
    IN  IF a_top = Raises \/ b_top = Raises
        THEN ValueError("no tc element at grid_offset")
        ELSE IF a_top = b_top /\ (a_bottom = Raises \/ b_bottom = Raises)
        THEN ValueError("no tc element at grid_offset")
        ELSE IF a_top = b_top /\ a_bottom # b_bottom
        THEN InvalidSpanError("requested span not rectangular")
        ELSE IF left(t, a) = left(t, b) /\ right(t, a) # right(t, b)
        THEN InvalidSpanError("requested span not rectangular")
        ELSE Ok

\* raise_on_tee_shaped comparing the sizes of the extents instead of their
\* edges: cells of different rows are rejected when their widths differ
RaiseOnWiderCell(t, a, b) ==
    IF top(t, a) # top(t, b)
       /\ right(t, a) - left(t, a) # right(t, b) - left(t, b)
    THEN InvalidSpanError("requested span not rectangular")
    ELSE Ok

\* CT_Tc._span_dimensions.raise_on_tee_shaped
raise_on_tee_shaped(t, a, b) ==
    LET a_first == top(t, a) < top(t, b)
        top_most == IF a_first THEN a ELSE b
        other == IF a_first THEN b ELSE a
        top_most_bottom == bottom(t, top_most)
        other_bottom == bottom(t, other)
        left_most == IF left(t, a) < left(t, b) THEN a ELSE b
        other_2 == IF left(t, a) < left(t, b) THEN b ELSE a
    IN  IF top(t, top_most) < top(t, other)
           /\ (top_most_bottom = Raises \/ other_bottom = Raises)
        THEN ValueError("no tc element at grid_offset")
        ELSE IF top(t, top_most) < top(t, other)
                /\ top_most_bottom > other_bottom
        THEN InvalidSpanError("requested span not rectangular")
        ELSE IF left(t, left_most) < left(t, other_2)
                /\ right(t, left_most) > right(t, other_2)
        THEN InvalidSpanError("requested span not rectangular")
        ELSE Ok

Min(x, y) == IF x < y THEN x ELSE y
Max(x, y) == IF x > y THEN x ELSE y

NoDims == [top |-> 0, left |-> 0, height |-> 0, width |-> 0]

\* CT_Tc._span_dimensions after the two checks returned inverted_L and
\* tee_shaped: [err, dims]
span_dimensions_checked(t, a, b, inverted_L, tee_shaped) ==
    IF inverted_L # Ok
    THEN [err |-> inverted_L, dims |-> NoDims]
    ELSE IF tee_shaped # Ok
    THEN [err |-> tee_shaped, dims |-> NoDims]
    ELSE IF bottom(t, a) = Raises \/ bottom(t, b) = Raises
    THEN [err |-> ValueError("no tc element at grid_offset"), dims |-> NoDims]
    ELSE [err |-> Ok,
          dims |-> [top |-> Min(top(t, a), top(t, b)),
                    left |-> Min(left(t, a), left(t, b)),
                    height |-> Max(bottom(t, a), bottom(t, b))
                                - Min(top(t, a), top(t, b)),
                    width |-> Max(right(t, a), right(t, b))
                                - Min(left(t, a), left(t, b))]]

\* CT_Tc._span_dimensions
span_dimensions(t, a, b) ==
    span_dimensions_checked(t, a, b, raise_on_inverted_L(t, a, b),
                            raise_on_tee_shaped(t, a, b))

\* CT_Tc._is_empty
is_empty(tc) ==
    IF Len(iter_block_items(tc)) > 1 THEN FALSE
    ELSE iter_block_items(tc)[1] = EmptyP

\* CT_Tc._remove_trailing_empty_p, on the block items
remove_trailing_empty_p(content) ==
    IF content[Len(content)] # EmptyP THEN content
    ELSE SubSeq(content, 1, Len(content) - 1)

\* CT_Tc._move_content_to: the table after this_tc._move_content_to(other_tc)
move_content_to(t, this_tc, other_tc) ==
    IF other_tc = this_tc THEN t
    ELSE IF is_empty(t[this_tc[1]][this_tc[2]]) THEN t
    ELSE LET moved == iter_block_items(t[this_tc[1]][this_tc[2]])
             kept == remove_trailing_empty_p(t[other_tc[1]][other_tc[2]].content)
             t1 == [t EXCEPT ![other_tc[1]][other_tc[2]].content = kept \o moved]
         IN [t1 EXCEPT ![this_tc[1]][this_tc[2]].content = <<EmptyP>>]

\* CT_Tc._add_width_of; a width of 0 is `None`
add_width_of(t, this_tc, other_tc) ==
    LET w == t[this_tc[1]][this_tc[2]].width
        w2 == t[other_tc[1]][other_tc[2]].width
    IN IF w # 0 /\ w2 # 0
       THEN [t EXCEPT ![this_tc[1]][this_tc[2]].width = w + w2]
       ELSE t

\* CT_Tc._remove left out: the swallowed w:tc stays in its row.
KeepTc(t, pos) == t

\* CT_Tc._remove: the row without its i-th w:tc
remove_tc(t, pos) ==
    [t EXCEPT ![pos[1]] =
        SubSeq(t[pos[1]], 1, pos[2] - 1) \o SubSeq(t[pos[1]], pos[2] + 1, Len(t[pos[1]]))]

\* CT_Tc._swallow_next_tc.raise_on_invalid_swallow
raise_on_invalid_swallow(t, this_tc, grid_width) ==
    IF this_tc[2] + 1 > Len(t[this_tc[1]])
    THEN InvalidSpanError("not enough grid columns")
    ELSE IF t[this_tc[1]][this_tc[2]].grid_span
            + t[this_tc[1]][this_tc[2] + 1].grid_span > grid_width
    THEN InvalidSpanError("span is not rectangular")
    ELSE Ok

\* CT_Tc._swallow_next_tc: [t, err], the table as the call leaves it
swallow_next_tc(t, this_tc, grid_width, top_tc) ==
    LET invalid == raise_on_invalid_swallow(t, this_tc, grid_width) IN
    IF invalid # Ok
    THEN [t |-> t, err |-> invalid]
    ELSE LET next_tc == <<this_tc[1], this_tc[2] + 1>>
             t1 == move_content_to(t, next_tc, top_tc)
             t2 == add_width_of(t1, this_tc, next_tc)
             t3 == [t2 EXCEPT ![this_tc[1]][this_tc[2]].grid_span =
                        @ + t2[next_tc[1]][next_tc[2]].grid_span]
         IN [t |-> remove_tc(t3, next_tc), err |-> Ok]

\* CT_Tc._span_to_width: the while loop; Swallowed continues it after
\* _swallow_next_tc returned res
RECURSIVE SwallowWhile(_, _, _, _)
Swallowed(res, this_tc, grid_width, top_tc) ==
    IF res.err # Ok THEN res
    ELSE SwallowWhile(res.t, this_tc, grid_width, top_tc)

SwallowWhile(t, this_tc, grid_width, top_tc) ==
    IF ~(t[this_tc[1]][this_tc[2]].grid_span < grid_width)
    THEN [t |-> t, err |-> Ok]
    ELSE Swallowed(swallow_next_tc(t, this_tc, grid_width, top_tc),
                   this_tc, grid_width, top_tc)

\* CT_Tc._span_to_width after the loop returned res: self.vMerge = vMerge
set_vMerge(res, this_tc, vMerge) ==
    IF res.err # Ok THEN res
    ELSE [t |-> [res.t EXCEPT ![this_tc[1]][this_tc[2]].vMerge = vMerge],
          err |-> Ok]

\* CT_Tc._span_to_width
span_to_width(t, this_tc, grid_width, top_tc, vMerge) ==
    set_vMerge(SwallowWhile(move_content_to(t, this_tc, top_tc),
                            this_tc, grid_width, top_tc),
               this_tc, vMerge)

\* CT_Tc._grow_to.vMerge_val
vMerge_val(this_tc, top_tc, height) ==
    IF top_tc # this_tc THEN ST_Merge_CONTINUE
    ELSE IF height = 1 THEN None ELSE ST_Merge_RESTART

\* CT_Tc._grow_to after _span_to_width returned res: if height > 1,
\* self._tc_below._grow_to(width, height - 1, top_tc)
RECURSIVE grow_to(_, _, _, _, _)
grow_below(res, this_tc, width, height, top_tc) ==
    IF res.err # Ok THEN res
    ELSE IF ~(height > 1) THEN res
    ELSE IF this_tc[1] = Len(res.t) THEN [t |-> res.t, err |-> AssertionError]
    ELSE LET j == tc_at_grid_offset(res.t[this_tc[1] + 1],
                                    grid_offset(res.t, this_tc))
         IN IF j = NoTc
            THEN [t |-> res.t, err |-> ValueError("no tc element at grid_offset")]
            ELSE grow_to(res.t, <<this_tc[1] + 1, j>>, width, height - 1, top_tc)

\* CT_Tc._grow_to
grow_to(t, this_tc, width, height, top_tc) ==
    grow_below(span_to_width(t, this_tc, width, top_tc,
                             vMerge_val(this_tc, top_tc, height)),
               this_tc, width, height, top_tc)

\* CT_Tc.merge after tc_at_grid_offset returned j:
\* top_tc._grow_to(width, height)
merge_top_tc(t, dims, j) ==
    IF j = NoTc
    THEN [t |-> t, err |-> ValueError("no tc element at grid_offset")]
    ELSE grow_to(t, <<dims.top + 1, j>>, dims.width, dims.height,
                 <<dims.top + 1, j>>)

\* CT_Tc.merge after _span_dimensions returned sd:
\* top_tc = self._tbl.tr_lst[top].tc_at_grid_offset(left)
merge_spanned(t, sd) ==
    IF sd.err # Ok THEN [t |-> t, err |-> sd.err]
    ELSE merge_top_tc(t, sd.dims, tc_at_grid_offset(t[sd.dims.top + 1], sd.dims.left))

\* CT_Tc.merge: [t, err], the table as the call leaves it
merge(t, a, b) == merge_spanned(t, span_dimensions(t, a, b))

\* CT_Tbl.iter_tcs: the positions of the w:tc elements, row by row
RECURSIVE iter_tcs(_, _)
iter_tcs(t, r) ==
    IF r > Len(t) THEN <<>>
    ELSE [i \in 1..Len(t[r]) |-> <<r, i>>] \o iter_tcs(t, r + 1)

\* the entry Table._cells holds when building the list raised IndexError
NoCell == <<0, 0>>

\* Table._cells: the two nested loops, at the k-th w:tc and grid_span_idx
RECURSIVE CellsFrom(_, _, _, _, _, _)
CellsFrom(t, tcs, k, grid_span_idx, acc, col_count) ==
    IF k > Len(tcs) THEN acc
    ELSE IF ~(grid_span_idx < t[tcs[k][1]][tcs[k][2]].grid_span)
    THEN CellsFrom(t, tcs, k + 1, 0, acc, col_count)
    ELSE IF t[tcs[k][1]][tcs[k][2]].vMerge = ST_Merge_CONTINUE
    THEN IF Len(acc) < col_count THEN <<NoCell>>
         ELSE CellsFrom(t, tcs, k, grid_span_idx + 1,
                        Append(acc, acc[Len(acc) + 1 - col_count]), col_count)
    ELSE IF grid_span_idx > 0
    THEN CellsFrom(t, tcs, k, grid_span_idx + 1, Append(acc, acc[Len(acc)]), col_count)
    ELSE CellsFrom(t, tcs, k, grid_span_idx + 1, Append(acc, tcs[k]), col_count)

\* Table._cells
cells(table) == CellsFrom(table.tr_lst, iter_tcs(table.tr_lst, 1), 1, 0, <<>>,
                          table.col_count)

\* Table.cell(row_idx, col_idx) over the list `_cells` returned: the w:tc of
\* the _Cell; NoCell for IndexError
cell(_cells, col_count, row_idx, col_idx) ==
    LET cell_idx == col_idx + (row_idx * col_count) IN
    IF _cells = <<NoCell>> \/ ~(cell_idx < Len(_cells)) THEN NoCell
    ELSE _cells[cell_idx + 1]

(***************************************************************************)
(* SpecTbl: Table.cell(row_a, col_a).merge(Table.cell(row_b, col_b)) on a  *)
(* table built by new_tbl, up to MaxMerges calls one after the other.      *)
(***************************************************************************)
InitTbl ==
    /\ \E shape \in Shapes : tbl = new_tbl(shape[1], shape[2])
    /\ merges = 0
    /\ tcall = <<>>
    /\ CoreIdle
    /\ IoIdle
    /\ DropIdle
    /\ NameIdle
    /\ LateIdle

\* What the caller saw of tc.merge(tc_2): the table before it, what it
\* raised, and the span dimensions when they were computed.
merged(tc, tc_2, sd, res) ==
    [tc |-> tc, tc_2 |-> tc_2, before |-> tbl.tr_lst,
     raised |-> res.err.raised, msg |-> res.err.msg,
     dims |-> IF sd.err # Ok THEN NoDims ELSE sd.dims]

\* _Cell.merge on the cells Table.cell returned: tc, tc_2 are their w:tc
Cell_merge(tc, tc_2) ==
    /\ merges < MaxMerges
    /\ tc # NoCell
    /\ tc_2 # NoCell
    /\ tbl' = [tbl EXCEPT !.tr_lst = merge(tbl.tr_lst, tc, tc_2).t]
    /\ tcall' = merged(tc, tc_2, span_dimensions(tbl.tr_lst, tc, tc_2),
                       merge(tbl.tr_lst, tc, tc_2))
    /\ merges' = merges + 1
    /\ UNCHANGED notTblVars

\* table.cell(row_a, col_a).merge(table.cell(row_b, col_b))
NextTbl ==
    LET _cells == cells(tbl) IN
    \E row_a, row_b \in 0..Len(tbl.tr_lst) - 1 :
        \E col_a, col_b \in 0..tbl.col_count - 1 :
            Cell_merge(cell(_cells, tbl.col_count, row_a, col_a),
                       cell(_cells, tbl.col_count, row_b, col_b))

SpecTbl == InitTbl /\ [][NextTbl]_vars

\* The last call was a merge that returned.
MergeSucceeded == tcall # <<>> /\ tcall.raised = "none"

\* The last call was a merge that raised.
MergeRaised == tcall # <<>> /\ tcall.raised # "none"

\* The cell of row index `row_idx` that starts at grid offset `offset` has
\* this grid_span and this vertical merge.
CellAtIs(row_idx, offset, span, vm) ==
    LET j == tc_at_grid_offset(tbl.tr_lst[row_idx + 1], offset)
    IN /\ j # NoTc
       /\ tbl.tr_lst[row_idx + 1][j].grid_span = span
       /\ tbl.tr_lst[row_idx + 1][j].vMerge = vm

\* A row without vertical merges.
Unmerged(tr) == \A i \in 1..Len(tr) : tr[i].vMerge = None

\* A row of cells that each span one grid column and one row.
Uniform(tr) == Unmerged(tr) /\ \A i \in 1..Len(tr) : tr[i].grid_span = 1

\* C11 as stated: after a merge that succeeded for the union rectangle
\* (top, left, height, width), the cell at (top, left) has grid_span =
\* width and vertical merge restart when height > 1, none when height = 1,
\* and in every later row of the rectangle the cell starting at grid
\* offset left has grid_span = width and vertical merge continue.
C11_MergedRegion ==
    MergeSucceeded =>
        /\ CellAtIs(tcall.dims.top, tcall.dims.left, tcall.dims.width,
                    IF tcall.dims.height > 1 THEN ST_Merge_RESTART ELSE None)
        /\ \A row_idx \in tcall.dims.top + 1 .. tcall.dims.top + tcall.dims.height - 1 :
                CellAtIs(row_idx, tcall.dims.left, tcall.dims.width, ST_Merge_CONTINUE)

\* The merge of C12: three grid columns, row 0 is a 2-wide cell at column 0
\* and a 1-wide cell, neither merged vertically, row 1 is uniform, and the
\* cell at (0, 0) was merged with the cell at (1, 2).
TeeCase ==
    /\ tcall # <<>>
    /\ tbl.col_count = 3
    /\ Len(tcall.before[1]) = 2
    /\ tcall.before[1][1].grid_span = 2
    /\ Unmerged(tcall.before[1])
    /\ Uniform(tcall.before[2])
    /\ tcall.tc = <<1, 1>>
    /\ tcall.tc_2 = <<2, 3>>

\* The same grid, the cell at (0, 0) merged with the cell at (1, 0).
InvertedLCase ==
    /\ tcall # <<>>
    /\ tbl.col_count = 3
    /\ Len(tcall.before[1]) = 2
    /\ tcall.before[1][1].grid_span = 2
    /\ Unmerged(tcall.before[1])
    /\ Uniform(tcall.before[2])
    /\ tcall.tc = <<1, 1>>
    /\ tcall.tc_2 = <<2, 1>>

\* C12, amended: in a three-column grid whose row 0 holds a 2-wide cell at
\* column 0 and whose row 1 is uniform, merging the cell at (0, 0) with the
\* cell at (1, 2) succeeds: the union is the rectangle of rows 0..1 and
\* columns 0..2, the top cell spans 3 columns with vertical merge restart
\* and the cell below spans 3 columns with vertical merge continue.
\* Merging the cell at (0, 0) with the cell at (1, 0), which shares its left
\* edge but not its right edge, raises the non-rectangular-span error.
C12_TeeCaseMerges ==
    /\ TeeCase =>
        /\ tcall.raised = "none"
        /\ tcall.dims = [top |-> 0, left |-> 0, height |-> 2, width |-> 3]
        /\ CellAtIs(0, 0, 3, ST_Merge_RESTART)
        /\ CellAtIs(1, 0, 3, ST_Merge_CONTINUE)
    /\ InvertedLCase =>
        /\ tcall.raised = "InvalidSpanError"
        /\ tcall.msg = "requested span not rectangular"

C12_Witness == TeeCase /\ tcall.raised = "none"

\* C12 as stated: that merge raises the non-rectangular-span error.
C12_AsStated ==
    TeeCase => tcall.raised = "InvalidSpanError"

\* C13 as stated: a merge succeeds or raises InvalidSpanError and no other
\* error.
C13_OnlyInvalidSpanError ==
    tcall # <<>> => tcall.raised \in {"none", "InvalidSpanError"}

\* C14 as stated: a merge that raises leaves the table as it was.
C14_RaiseLeavesTable ==
    MergeRaised => tbl.tr_lst = tcall.before

(***************************************************************************)
(* SpecIO: OpcPackage.save and OpcPackage.open call by call.  A package is *)
(* written through the physical writer, one phys_writer.write call at a    *)
(* time, any of which may raise; the saved file may then be edited by hand *)
(* (one item removed or made unparseable, or the manifest emptied); it is  *)
(* then read through the physical reader and unmarshalled.                 *)
(***************************************************************************)
CONTENT_TYPES_URI == <<"[Content_Types].xml">>

\* the items of a physical package: the content types stream, the rels item
\* of a source (named here by the source's URI) and the blob of a part
ContentTypesStream == [kind |-> "content_types", uri |-> CONTENT_TYPES_URI]
RelsItem(uri) == [kind |-> "rels", uri |-> uri]
BlobItem(uri) == [kind |-> "blob", uri |-> uri]

\* the packages saved: <<targets of the package, <<part, target>> pairs>>
IoShapes ==
    {<<{}, {}>>,
     <<{2}, {}>>,
     <<{2}, {<<2, 3>>}>>,
     <<{2}, {<<2, 3>>, <<2, NoPart>>}>>,
     <<{2}, {<<2, 3>>, <<3, 2>>}>>,
     <<{2}, {<<2, 2>>}>>,
     <<{2, 3}, {<<2, 3>>}>>,
     <<{2, 4}, {<<2, 3>>}>>,
     <<{2, NoPart}, {<<2, 3>>, <<2, 4>>}>>}

\* PackageWriter._write_parts with every part given a rels item
WritePartWithRels(g, part) ==
    <<BlobItem(partname(part)), RelsItem(partname(part))>>

\* PackageWriter._write_parts, one iteration: the phys_writer.write calls
write_part(g, part) ==
    IF Len(g[part]) > 0
    THEN <<BlobItem(partname(part)), RelsItem(partname(part))>>
    ELSE <<BlobItem(partname(part))>>

\* PackageWriter._write_parts: the calls for parts[i..]
RECURSIVE write_parts(_, _, _)
write_parts(g, parts, i) ==
    IF i > Len(parts) THEN <<>>
    ELSE write_part(g, parts[i]) \o write_parts(g, parts, i + 1)

\* PackageWriter.write: the phys_writer.write calls in program order
write_calls(g, parts) ==
    <<ContentTypesStream>> \o <<RelsItem(PACKAGE_URI)>> \o write_parts(g, parts, 1)

\* what happened to an item of the saved file before the load
Status(item) ==
    IF edit # <<>> /\ edit.item = item THEN edit.kind ELSE "ok"

Edits ==
    {[kind |-> "remove", item |-> writes[i]] : i \in 1..Len(writes)}
    \cup {[kind |-> "corrupt", item |-> writes[i]] :
            i \in {j \in 1..Len(writes) : writes[j].kind # "blob"}}
    \cup {[kind |-> "empty", item |-> ContentTypesStream]}

\* the physical package the reader sees: a rels item that is missing or
\* unparseable yields no relationship, an emptied manifest no element
PhysRead ==
    LET ph == write(iopkg, iter_parts(iopkg))
    IN [content_types |->
            IF Status(ContentTypesStream) = "empty"
            THEN [defaults |-> <<>>, overrides |-> <<>>]
            ELSE ph.content_types,
        rels |-> [u \in {v \in DOMAIN ph.rels : Status(RelsItem(v)) = "ok"} |->
                    ph.rels[u]],
        blobs |-> ph.blobs]

\* PackageReader._walk_phys_parts(phys_reader, pkg_srels), as far as it gets
Walked ==
    walk_phys_parts(PhysRead, srels_for(PhysRead, PACKAGE_URI), 1,
                    [visited |-> <<>>, sparts |-> <<>>]).sparts

\* PackageReader.iter_srels for the parts sparts[i..]
RECURSIVE iter_part_srels(_, _)
iter_part_srels(sps, i) ==
    IF i > Len(sps) THEN <<>>
    ELSE [k \in 1..Len(sps[i].srels) |->
            [op |-> "load_rel", uri |-> sps[i].partname, rId |-> sps[i].srels[k].rId]]
         \o iter_part_srels(sps, i + 1)

\* Unmarshaller._unmarshal_parts: one part_factory call per serialized part
part_factory_calls(reader) ==
    [i \in 1..Len(reader.sparts) |->
        [op |-> "part_factory", uri |-> reader.sparts[i].partname, rId |-> ""]]

\* Unmarshaller._unmarshal_relationships: one load_rel call per relationship
\* of PackageReader.iter_srels
load_rel_calls(reader) ==
    [k \in 1..Len(reader.pkg_srels) |->
        [op |-> "load_rel", uri |-> PACKAGE_URI, rId |-> reader.pkg_srels[k].rId]]
    \o iter_part_srels(reader.sparts, 1)

\* for part in parts.values(): part.after_unmarshal()
after_unmarshal_calls(reader) ==
    [i \in 1..Len(reader.sparts) |->
        [op |-> "after_unmarshal", uri |-> reader.sparts[i].partname, rId |-> ""]]

PackageAfterUnmarshal == [op |-> "after_unmarshal", uri |-> PACKAGE_URI, rId |-> ""]

\* Unmarshaller.unmarshal with each part's after_unmarshal called as soon as
\* the parts are constructed
UnmarshalCallbacksEarly(reader) ==
    part_factory_calls(reader) \o after_unmarshal_calls(reader)
    \o load_rel_calls(reader) \o <<PackageAfterUnmarshal>>

\* Unmarshaller.unmarshal: its calls in program order
unmarshal_calls(reader) ==
    part_factory_calls(reader) \o load_rel_calls(reader)
    \o after_unmarshal_calls(reader) \o <<PackageAfterUnmarshal>>

\* the PackageReader that from_file returned
Reader == [pkg_srels |-> srels_for(PhysRead, PACKAGE_URI), sparts |-> sparts]

InitIO ==
    /\ \E shape \in IoShapes : iopkg = PackageOf(shape[1], shape[2])
    /\ iopc = "built"
    /\ ioidx = 0
    /\ phys_writer = "none"
    /\ phys_reader = "none"
    /\ writes = <<>>
    /\ edit = <<>>
    /\ sparts = <<>>
    /\ events = <<>>
    /\ CoreIdle
    /\ TblIdle
    /\ DropIdle
    /\ NameIdle
    /\ LateIdle

\* PackageWriter.write: phys_writer = PhysPkgWriter(pkg_file)
PhysPkgWriter_new ==
    /\ iopc = "built"
    /\ iopc' = "writing"
    /\ ioidx' = 1
    /\ phys_writer' = "open"
    /\ UNCHANGED <<iopkg, phys_reader, writes, edit, sparts, events, notIoVars>>

\* the next phys_writer.write call of PackageWriter.write returns
phys_writer_write ==
    /\ iopc = "writing"
    /\ ioidx <= Len(write_calls(iopkg, iter_parts(iopkg)))
    /\ writes' = Append(writes, write_calls(iopkg, iter_parts(iopkg))[ioidx])
    /\ ioidx' = ioidx + 1
    /\ UNCHANGED <<iopkg, iopc, phys_writer, phys_reader, edit, sparts, events,
                   notIoVars>>

\* the next phys_writer.write call, or the computing of what it writes,
\* raises: PackageWriter.write is left by the exception
phys_writer_write_raises ==
    /\ iopc = "writing"
    /\ ioidx <= Len(write_calls(iopkg, iter_parts(iopkg)))
    /\ iopc' = "save_raised"
    /\ UNCHANGED <<iopkg, ioidx, phys_writer, phys_reader, writes, edit, sparts,
                   events, notIoVars>>

\* PackageWriter.write: phys_writer.close()
phys_writer_close ==
    /\ iopc = "writing"
    /\ ioidx > Len(write_calls(iopkg, iter_parts(iopkg)))
    /\ iopc' = "saved"
    /\ phys_writer' = "closed"
    /\ UNCHANGED <<iopkg, ioidx, phys_reader, writes, edit, sparts, events,
                   notIoVars>>

\* the saved file is edited outside the program
hand_edit(e) ==
    /\ iopc = "saved"
    /\ edit = <<>>
    /\ edit' = e
    /\ UNCHANGED <<iopkg, iopc, ioidx, phys_writer, phys_reader, writes, sparts,
                   events, notIoVars>>

\* PackageReader.from_file: phys_reader = PhysPkgReader(pkg_file)
PhysPkgReader_new ==
    /\ iopc = "saved"
    /\ iopc' = "content_types"
    /\ phys_reader' = "open"
    /\ UNCHANGED <<iopkg, ioidx, phys_writer, writes, edit, sparts, events,
                   notIoVars>>

\* PackageReader.from_file:
\*   content_types = _ContentTypeMap.from_xml(phys_reader.content_types_xml)
\* blob_for raises KeyError for a missing item, parse_xml for a corrupt one
read_content_types ==
    /\ iopc = "content_types"
    /\ iopc' = IF Status(ContentTypesStream) \in {"remove", "corrupt"}
               THEN "load_raised" ELSE "pkg_srels"
    /\ UNCHANGED <<iopkg, ioidx, phys_writer, phys_reader, writes, edit, sparts,
                   events, notIoVars>>

\* PackageReader.from_file: pkg_srels = _srels_for(phys_reader, PACKAGE_URI)
read_pkg_srels ==
    /\ iopc = "pkg_srels"
    /\ iopc' = IF Status(RelsItem(PACKAGE_URI)) = "corrupt"
               THEN "load_raised" ELSE "sparts"
    /\ ioidx' = 1
    /\ UNCHANGED <<iopkg, phys_writer, phys_reader, writes, edit, sparts, events,
                   notIoVars>>

\* PackageReader._load_serialized_parts, one iteration: _walk_phys_parts reads
\* the rels item and the blob of the next part, then content_types[partname]
load_serialized_part ==
    /\ iopc = "sparts"
    /\ ioidx <= Len(Walked)
    /\ LET spart == Walked[ioidx]
           looked_up == getitem(from_xml(PhysRead.content_types), spart.partname)
       IN IF \/ Status(RelsItem(spart.partname)) = "corrupt"
             \/ Status(BlobItem(spart.partname)) = "remove"
             \/ looked_up.raised # "none"
          THEN /\ iopc' = "load_raised"
               /\ UNCHANGED <<ioidx, sparts>>
          ELSE /\ sparts' = Append(sparts,
                        [partname |-> spart.partname,
                         content_type |-> looked_up.content_type,
                         reltype |-> spart.reltype,
                         blob |-> spart.blob,
                         srels |-> spart.srels])
               /\ ioidx' = ioidx + 1
               /\ UNCHANGED iopc
    /\ UNCHANGED <<iopkg, phys_writer, phys_reader, writes, edit, events, notIoVars>>

\* PackageReader.from_file: phys_reader.close(), and the reader is returned
phys_reader_close ==
    /\ iopc = "sparts"
    /\ ioidx > Len(Walked)
    /\ iopc' = "unmarshal"
    /\ ioidx' = 1
    /\ phys_reader' = "closed"
    /\ UNCHANGED <<iopkg, phys_writer, writes, edit, sparts, events, notIoVars>>

\* Unmarshaller.unmarshal: its next call
unmarshal_call ==
    /\ iopc = "unmarshal"
    /\ ioidx <= Len(unmarshal_calls(Reader))
    /\ events' = Append(events, unmarshal_calls(Reader)[ioidx])
    /\ ioidx' = ioidx + 1
    /\ iopc' = IF ioidx = Len(unmarshal_calls(Reader)) THEN "opened" ELSE "unmarshal"
    /\ UNCHANGED <<iopkg, phys_writer, phys_reader, writes, edit, sparts, notIoVars>>

NextIO ==
    \/ PhysPkgWriter_new
    \/ phys_writer_write
    \/ phys_writer_write_raises
    \/ phys_writer_close
    \/ \E e \in Edits : hand_edit(e)
    \/ PhysPkgReader_new
    \/ read_content_types
    \/ read_pkg_srels
    \/ load_serialized_part
    \/ phys_reader_close
    \/ unmarshal_call

SpecIO == InitIO /\ [][NextIO]_vars

\* PackageWriter.write has returned or raised.
SaveExited == iopc \notin {"idle", "built", "writing"}

\* PackageReader.from_file has returned or raised.
LoadExited == iopc \in {"load_raised", "unmarshal", "opened"}

\* C15 as stated: on every exit path of a save the physical writer has been
\* closed, and on every exit path of a load the physical reader has been
\* closed.
C15_ClosedOnEveryExit ==
    /\ SaveExited => phys_writer = "closed"
    /\ LoadExited => phys_reader = "closed"

\* The event at position i of `events` comes after an event equal to e.
After(i, e) == \E j \in 1..i - 1 : events[j] = e

\* C18: no after_unmarshal callback runs before every part was constructed
\* and every relationship wired; the package's after_unmarshal runs after
\* the after_unmarshal of every part; and when unmarshal returns all of
\* them have run.
C18_CallbacksAfterWiring ==
    /\ \A i \in 1..Len(events) :
        events[i].op = "after_unmarshal" =>
            /\ \A k \in 1..Len(part_factory_calls(Reader)) :
                    After(i, part_factory_calls(Reader)[k])
            /\ \A k \in 1..Len(load_rel_calls(Reader)) :
                    After(i, load_rel_calls(Reader)[k])
    /\ \A i \in 1..Len(events) :
        events[i] = PackageAfterUnmarshal =>
            \A k \in 1..Len(sparts) :
                After(i, [op |-> "after_unmarshal", uri |-> sparts[k].partname,
                          rId |-> ""])
    /\ iopc = "opened" => events[Len(events)] = PackageAfterUnmarshal

C18_Witness ==
    /\ iopc = "opened"
    /\ Len(sparts) >= 2
    /\ \E k \in 1..Len(sparts) : Len(sparts[k].srels) > 0

\* The write at position i of `writes` comes after a write of `item`.
WrittenBefore(i, item) == \E j \in 1..i - 1 : writes[j] = item

\* C19: the content types stream is written first, the rels item of the
\* package second, then the parts; the rels item of a part is written after
\* the blob of that part and only for a part whose relationship collection
\* is not empty; and a finished save has written the blob of every part and
\* the rels item of every part whose relationship collection is not empty.
C19_WriteOrder ==
    /\ \A i \in 1..Len(writes) :
        /\ (i = 1) <=> (writes[i] = ContentTypesStream)
        /\ (i = 2) <=> (writes[i] = RelsItem(PACKAGE_URI))
        /\ (i > 2 /\ writes[i].kind = "rels") =>
            /\ WrittenBefore(i, BlobItem(writes[i].uri))
            /\ \E part \in Range(iter_parts(iopkg)) :
                    partname(part) = writes[i].uri /\ Len(iopkg[part]) > 0
    /\ SaveExited /\ iopc # "save_raised" =>
        \A part \in Range(iter_parts(iopkg)) :
            /\ \E i \in 1..Len(writes) : writes[i] = BlobItem(partname(part))
            /\ (\E i \in 1..Len(writes) : writes[i] = RelsItem(partname(part)))
                    <=> Len(iopkg[part]) > 0

C19_Witness ==
    /\ iopc = "saved"
    /\ \E part \in Range(iter_parts(iopkg)) : Len(iopkg[part]) > 0
    /\ \E part \in Range(iter_parts(iopkg)) : Len(iopkg[part]) = 0

(***************************************************************************)
(* SpecDrop: Part.drop_rel on one part, a Part or an XmlPart, while        *)
(* relationships are added to it and elements carrying an r:id attribute   *)
(* are added to and removed from its XML.                                  *)
(***************************************************************************)
MaxRefs == 3        \* r:id attributes in the XML of the part (SpecDrop)

notDropVars == <<walkVars, pkgVars, typesVars, xmlVars, tblVars, ioVars, nameVars,
                 lateVars>>

PartClasses == {"Part", "XmlPart"}
\* the rIds drop_rel is called with and the XML refers to
DropRIds == {"rId1", "rId2"}

\* Part._rel_ref_count
Part_rel_ref_count(ids, rId) == 0

\* Whether rId is referred to at all, in place of how many times.
RelRefCountDistinct(ids, rId) == IF rId \in Range(ids) THEN 1 ELSE 0

\* XmlPart._rel_ref_count: ids is self._element.xpath("//@r:id")
XmlPart_rel_ref_count(ids, rId) == Len(SelectSeq(ids, LAMBDA _rId : _rId = rId))

\* self._rel_ref_count(rId), dispatched on the class of the part
rel_ref_count(rId) ==
    IF part_cls = "XmlPart"
    THEN XmlPart_rel_ref_count(r_ids, rId)
    ELSE Part_rel_ref_count(r_ids, rId)

\* Part.drop_rel: del self.rels[rId] when the reference count is below 2,
\* a KeyError when rId is no key
Part_drop_rel(rId) ==
    IF rel_ref_count(rId) < 2
    THEN IF rId \in Keys(rels)
         THEN /\ rels' = DictDel(rels, rId)
              /\ call' = Called("drop_rel", "", NoPart, NoURI, rId, "none", FALSE)
              /\ UNCHANGED <<target_parts_by_rId, notRelsVars>>
         ELSE /\ call' = Called("drop_rel", "", NoPart, NoURI, rId, "KeyError", FALSE)
              /\ UNCHANGED <<rels, target_parts_by_rId, notRelsVars>>
    ELSE /\ call' = Called("drop_rel", "", NoPart, NoURI, rId, "none", FALSE)
         /\ UNCHANGED <<rels, target_parts_by_rId, notRelsVars>>

\* an element with r:id = rId is added to the XML of the part
add_r_id(rId) ==
    /\ part_cls = "XmlPart"
    /\ Len(r_ids) < MaxRefs
    /\ r_ids' = Append(r_ids, rId)
    /\ call' = NoCall
    /\ UNCHANGED <<rels, target_parts_by_rId, part_cls, notDropVars>>

\* the i-th element with an r:id is removed from the XML of the part
remove_r_id(i) ==
    /\ part_cls = "XmlPart"
    /\ i \in 1..Len(r_ids)
    /\ r_ids' = SubSeq(r_ids, 1, i - 1) \o SubSeq(r_ids, i + 1, Len(r_ids))
    /\ call' = NoCall
    /\ UNCHANGED <<rels, target_parts_by_rId, part_cls, notDropVars>>

InitDrop ==
    /\ part_cls \in PartClasses
    /\ r_ids = <<>>
    /\ CoreIdle
    /\ TblIdle
    /\ IoIdle
    /\ NameIdle
    /\ LateIdle

NextDrop ==
    \/ \E reltype \in InternalRelTypes, part \in RelParts : relate_to(part, reltype)
    \/ \E rId \in DropRIds : add_r_id(rId)
    \/ \E i \in 1..MaxRefs : remove_r_id(i)
    \/ \E rId \in DropRIds : Part_drop_rel(rId)

SpecDrop == InitDrop /\ [][NextDrop]_vars

\* The number of r:id attributes in the XML whose value is rId.
RefsTo(rId) == Cardinality({i \in 1..Len(r_ids) : r_ids[i] = rId})

\* C17: drop_rel(rId) on a relationship the part holds deletes it, and only
\* it, when fewer than 2 r:id attributes of the part's XML have the value
\* rId, which is always so for a part that is not an XML part; when 2 or
\* more have it, the relationship collection is left as it was.
C17_DropRelByRefCount ==
    [][(call'.op = "drop_rel" /\ call'.raised = "none" /\ call'.rId \in Keys(rels)) =>
         IF part_cls = "XmlPart" /\ RefsTo(call'.rId) >= 2
         THEN rels' = rels
         ELSE /\ Keys(rels') = Keys(rels) \ {call'.rId}
              /\ Len(rels') = Len(rels) - 1
              /\ \A i \in 1..Len(rels') : rels'[i] \in Range(rels)]_vars

\* drop_rel has deleted a relationship the XML referred to once, while a
\* relationship the XML refers to twice is held.
C17_Witness ==
    /\ part_cls = "XmlPart"
    /\ call.op = "drop_rel"
    /\ call.raised = "none"
    /\ RefsTo(call.rId) = 1
    /\ call.rId \notin Keys(rels)
    /\ \E rId \in Keys(rels) : RefsTo(rId) >= 2

(***************************************************************************)
(* SpecNames: the partname of each Part of a package while the parts are   *)
(* being related, renamed through the partname setter, and                 *)
(* OpcPackage.next_partname is asked for a free partname.                  *)
(*                                                                         *)
(* A string is the sequence of its pieces, "/word/header1.xml" being       *)
(* <<"/", "word/header", "1", ".xml">>, so that its first character and    *)
(* the "%d" of a template are pieces of their own.  A value is a record    *)
(* of its class, str or PackURI, and its string.                           *)
(***************************************************************************)
MaxWired == 2       \* relationships made in one package (SpecNames)

\* the Part objects of the package
NamedParts == {1, 2, 3}

HEADER_TEMPLATE == <<"/", "word/header", "%d", ".xml">>
FOOTER_TEMPLATE == <<"/", "word/footer", "%d", ".xml">>
\* the templates next_partname is called with
Templates == {HEADER_TEMPLATE, FOOTER_TEMPLATE}

\* template % n
Format(template, n) ==
    [i \in 1..Len(template) |-> IF template[i] = "%d" THEN ToString(n) ELSE template[i]]

\* a plain str
str(s) == [cls |-> "str", s |-> s]

\* PackURI.__new__: a ValueError unless pack_uri_str[0] is "/"
PackURI_raises(pack_uri_str) == pack_uri_str[1] # "/"
PackURI(pack_uri_str) == [cls |-> "PackURI", s |-> pack_uri_str]

\* the partnames the parts are constructed with
ConstructedNames ==
    {PackURI(Format(HEADER_TEMPLATE, 1)), PackURI(Format(HEADER_TEMPLATE, 3)),
     PackURI(Format(FOOTER_TEMPLATE, 1))}

\* the values the partname setter is handed
SetterValues == ConstructedNames \cup {str(Format(HEADER_TEMPLATE, 2))}

\* OpcPackage.iter_parts on the relationships made: the parts reachable
\* from the package
RECURSIVE WiredClosure(_)
WiredClosure(S) ==
    LET next == S \cup {e[2] : e \in {w \in wired : w[1] \in S \cup {PACKAGE}}}
    IN IF next = S THEN S ELSE WiredClosure(next)

\* {part.partname for part in self.iter_parts()}; a PackURI is equal to the
\* str of the same characters
reachable_partnames == {partnames[part].s : part \in WiredClosure({})}

\* the partname of n + 1 parts counted, whichever names they have
NextPartnameByCount(template) ==
    [raised |-> "none",
     result |-> PackURI(Format(template, Cardinality(reachable_partnames) + 1))]

\* OpcPackage.next_partname: for n in range(1, len(partnames) + 2), the first
\* template % n that is not in partnames, made a PackURI; None when the loop
\* ends without one
RECURSIVE NextPartnameFrom(_, _)
NextPartnameFrom(template, n) ==
    LET candidate_partname == Format(template, n)
    IN IF n >= Cardinality(reachable_partnames) + 2
       THEN [raised |-> "none", result |-> None]
       ELSE IF candidate_partname \notin reachable_partnames
       THEN IF PackURI_raises(candidate_partname)
            THEN [raised |-> "ValueError", result |-> None]
            ELSE [raised |-> "none", result |-> PackURI(candidate_partname)]
       ELSE NextPartnameFrom(template, n + 1)

next_partname_returns(template) == NextPartnameFrom(template, 1)

NameCalled(op, part, template, returned) ==
    [op |-> op, part |-> part, template |-> template,
     result |-> returned.result, raised |-> returned.raised]

\* Part.__init__ of every part, before any relationship
InitNames ==
    /\ partnames \in [NamedParts -> ConstructedNames]
    /\ wired = {}
    /\ ncall = <<>>
    /\ CoreIdle
    /\ TblIdle
    /\ IoIdle
    /\ DropIdle
    /\ LateIdle

\* OpcPackage.relate_to / Part.relate_to -> Relationships.get_or_add: the
\* relationship to `target` is added unless `source` has it
Names_relate_to(source, target) ==
    /\ <<source, target>> \in wired \/ Cardinality(wired) < MaxWired
    /\ wired' = wired \cup {<<source, target>>}
    /\ ncall' = NameCalled("relate_to", NoPart, <<>>,
                           [raised |-> "none", result |-> None])
    /\ UNCHANGED <<partnames, notNameVars>>

\* Part.partname setter: a TypeError unless the value is a PackURI
partname_setter(part, value) ==
    IF value.cls # "PackURI"
    THEN /\ ncall' = NameCalled("partname", NoPart, <<>>,
                                [raised |-> "TypeError", result |-> None])
         /\ UNCHANGED <<partnames, wired, notNameVars>>
    ELSE /\ partnames' = [partnames EXCEPT ![part] = value]
         /\ ncall' = NameCalled("partname", NoPart, <<>>,
                                [raised |-> "none", result |-> None])
         /\ UNCHANGED <<wired, notNameVars>>

\* OpcPackage.next_partname(template)
next_partname(template) ==
    /\ ncall' = NameCalled("next_partname", NoPart, template,
                           next_partname_returns(template))
    /\ UNCHANGED <<partnames, wired, notNameVars>>

NextNames ==
    \/ \E source \in {PACKAGE} \cup NamedParts, target \in NamedParts : Names_relate_to(source, target)
    \/ \E part \in NamedParts, value \in SetterValues : partname_setter(part, value)
    \/ \E template \in Templates : next_partname(template)

SpecNames == InitNames /\ [][NextNames]_vars

\* The part is the source or the target of a relationship.
WiringBegun(part) == \E w \in wired : w[1] = part \/ w[2] = part

\* C16: the partname of every part begins with "/", and no step changes the
\* partname of a part that is the source or the target of a relationship.
C16_PartnameFixedOnceWired ==
    /\ [](\A part \in DOMAIN partnames : partnames[part].s[1] = "/")
    /\ [][\A part \in DOMAIN partnames :
            WiringBegun(part) => partnames'[part] = partnames[part]]_vars

\* The smallest n >= 1 for which template filled with n is not the partname
\* of a part reachable from the package.
SmallestFreeIn(template) ==
    CHOOSE n \in 1..Cardinality(NamedParts) + 1 :
        /\ Format(template, n) \notin reachable_partnames
        /\ \A m \in 1..n - 1 : Format(template, m) \in reachable_partnames

\* C20: next_partname(template) raises nothing and returns the PackURI of
\* template filled with the smallest n >= 1 for which that is not the
\* partname of a part reachable from the package.
C20_NextPartnameSmallestFree ==
    (ncall # <<>> /\ ncall.op = "next_partname") =>
        /\ ncall.raised = "none"
        /\ ncall.result = PackURI(Format(ncall.template, SmallestFreeIn(ncall.template)))

\* with header1 and header3 the partnames of the reachable parts, the header
\* template gave header2
C20_Witness ==
    /\ ncall # <<>>
    /\ ncall.op = "next_partname"
    /\ ncall.template = HEADER_TEMPLATE
    /\ reachable_partnames = {Format(HEADER_TEMPLATE, 1), Format(HEADER_TEMPLATE, 3)}
    /\ ncall.result = PackURI(Format(HEADER_TEMPLATE, 2))

(***************************************************************************)
(* Simple types and lengths.                                               *)
(*                                                                         *)
(* A Python value is a record of its type and its integer: None is         *)
(* [NoneType, 0], True is [bool, 1], a Length is [Length, its EMU] and an  *)
(* enumeration member is [the enumeration, its MS API value].  An XML      *)
(* attribute value is a string, and None where to_xml returns None.        *)
(***************************************************************************)
MaxEmu == 1300      \* the largest EMU length converted (SpecLength)
MaxInt == 8         \* the largest integer read from an attribute (SpecAttr)

PyNone == [type |-> "NoneType", v |-> 0]
PyBool(b) == [type |-> "bool", v |-> IF b THEN 1 ELSE 0]
PyInt(n) == [type |-> "int", v |-> n]
\* Emu.__new__ / Length.__new__
Emu(emu) == [type |-> "Length", v |-> emu]
Member(enum, ms_api_value) == [type |-> enum, v |-> ms_api_value]

\* what a conversion returned or raised
Returned(val) == [raised |-> "none", val |-> val]
Raised(exc) == [raised |-> exc, val |-> PyNone]

\* Length._EMUS_PER_TWIP, Length._EMUS_PER_PT
EMUS_PER_TWIP == 635
EMUS_PER_PT == 12700

\* int(round(x)) for x = num / den with den > 0: the nearest integer, the
\* even one of the two when x is halfway between them
RoundHalfEven(num, den) ==
    LET q == num \div den
        r == num % den
    IN IF 2 * r < den THEN q
       ELSE IF 2 * r > den THEN q + 1
       ELSE IF q % 2 = 0 THEN q ELSE q + 1

\* int(x) of emu / 635: the fraction dropped
TwipsTruncated(emu) ==
    IF emu >= 0 THEN emu \div EMUS_PER_TWIP ELSE -((-emu) \div EMUS_PER_TWIP)

\* Length.twips: int(round(self / float(self._EMUS_PER_TWIP)))
Length_twips(emu) == RoundHalfEven(emu, EMUS_PER_TWIP)

\* Twips.__new__, Pt.__new__ on a whole number: int(twips * 635)
Twips(twips) == twips * EMUS_PER_TWIP
Pt(points) == points * EMUS_PER_PT

\* str(n) and int(s) on the integers an attribute holds
IntStrings == {ToString(n) : n \in -MaxInt..MaxInt}
int(s) == CHOOSE n \in -MaxInt..MaxInt : ToString(n) = s

\* ST_UniversalMeasure.convert_from_xml on the strings with a unit: the EMU
UniversalMeasures == {"1pt"}
ST_UniversalMeasure_convert_from_xml(str_value) == Emu(12700)

\* BaseXmlEnum members as (ms_api_value, xml_value)
WD_UNDERLINE == {<<-1, None>>, <<0, "none">>, <<1, "single">>}
WD_COLOR_INDEX == {<<-1, None>>, <<0, "default">>, <<1, "black">>}
Enums == {"WD_UNDERLINE", "WD_COLOR_INDEX"}
Members(enum) == IF enum = "WD_UNDERLINE" THEN WD_UNDERLINE ELSE WD_COLOR_INDEX

\* BaseXmlEnum.from_xml: the member with this xml_value, or ValueError
BaseXmlEnum_from_xml(enum, xml_value) ==
    IF \E m \in Members(enum) : m[2] = xml_value
    THEN Returned(Member(enum, (CHOOSE m \in Members(enum) : m[2] = xml_value)[1]))
    ELSE Raised("ValueError")

\* BaseXmlEnum.to_xml: cls(value).xml_value, a ValueError when value is the
\* value of no member
BaseXmlEnum_to_xml(enum, value) ==
    IF value.type \in {enum, "int"} /\ \E m \in Members(enum) : m[1] = value.v
    THEN Returned((CHOOSE m \in Members(enum) : m[1] = value.v)[2])
    ELSE Raised("ValueError")

\* every literal but "yes" decoded, "yes" as true
TruthyFromXml(str_value) ==
    IF str_value \notin {"1", "0", "true", "false", "on", "off", "yes"}
    THEN Raised("InvalidXmlError")
    ELSE Returned(PyBool(str_value \in {"1", "true", "on", "yes"}))

\* XsdBoolean.convert_from_xml
XsdBoolean_convert_from_xml(str_value) ==
    IF str_value \notin {"1", "0", "true", "false"}
    THEN Raised("InvalidXmlError")
    ELSE Returned(PyBool(str_value \in {"1", "true"}))

\* ST_OnOff.convert_from_xml
ST_OnOff_convert_from_xml(str_value) ==
    IF str_value \notin {"1", "0", "true", "false", "on", "off"}
    THEN Raised("InvalidXmlError")
    ELSE Returned(PyBool(str_value \in {"1", "true", "on"}))

\* XsdBoolean.validate, XsdBoolean.convert_to_xml
XsdBoolean_to_xml(value) ==
    IF ~(value.type \in {"bool", "int"} /\ value.v \in {0, 1})
    THEN Raised("TypeError")
    ELSE Returned(IF value.v = 1 THEN "1" ELSE "0")

\* BaseSimpleType.validate_int_in_range
validate_int_in_range(value, min_inclusive, max_inclusive) ==
    IF value.type \notin {"int", "bool", "Length"} THEN "TypeError"
    ELSE IF value.v < min_inclusive \/ value.v > max_inclusive THEN "ValueError"
    ELSE "none"

\* The bounds of XsdInt.validate and XsdUnsignedLong.validate.  Integers
\* have 32 bits here, so the largest of them stands for 18446744073709551615:
\* no integer of the model is above either.
XsdInt_min == -2147483647 - 1
XsdInt_max == 2147483647
XsdUnsignedLong_max == 2147483647

\* XsdInt.validate, BaseIntType.convert_to_xml
XsdInt_to_xml(value) ==
    IF validate_int_in_range(value, XsdInt_min, XsdInt_max) # "none"
    THEN Raised(validate_int_in_range(value, XsdInt_min, XsdInt_max))
    ELSE Returned(ToString(value.v))

\* BaseIntType.convert_from_xml: int(str_value)
BaseIntType_convert_from_xml(str_value) ==
    IF str_value \notin IntStrings THEN Raised("ValueError")
    ELSE Returned(PyInt(int(str_value)))

\* XsdUnsignedLong.validate, ST_TwipsMeasure.convert_to_xml
ST_TwipsMeasure_to_xml(value) ==
    IF validate_int_in_range(value, 0, XsdUnsignedLong_max) # "none"
    THEN Raised(validate_int_in_range(value, 0, XsdUnsignedLong_max))
    ELSE Returned(ToString(Length_twips(value.v)))

\* ST_TwipsMeasure.convert_from_xml
ST_TwipsMeasure_convert_from_xml(str_value) ==
    IF str_value \in UniversalMeasures
    THEN Returned(ST_UniversalMeasure_convert_from_xml(str_value))
    ELSE IF str_value \notin IntStrings THEN Raised("ValueError")
    ELSE Returned(Emu(Twips(int(str_value))))

\* self._simple_type.from_xml(attr_str_value)
simple_type_from_xml(simple_type, str_value) ==
    IF simple_type = "XsdBoolean" THEN XsdBoolean_convert_from_xml(str_value)
    ELSE IF simple_type = "ST_OnOff" THEN ST_OnOff_convert_from_xml(str_value)
    ELSE IF simple_type = "ST_DecimalNumber" THEN BaseIntType_convert_from_xml(str_value)
    ELSE IF simple_type = "ST_TwipsMeasure" THEN ST_TwipsMeasure_convert_from_xml(str_value)
    ELSE BaseXmlEnum_from_xml(simple_type, str_value)

\* self._simple_type.to_xml(value)
simple_type_to_xml(simple_type, value) ==
    IF simple_type \in {"XsdBoolean", "ST_OnOff"} THEN XsdBoolean_to_xml(value)
    ELSE IF simple_type = "ST_DecimalNumber" THEN XsdInt_to_xml(value)
    ELSE IF simple_type = "ST_TwipsMeasure" THEN ST_TwipsMeasure_to_xml(value)
    ELSE BaseXmlEnum_to_xml(simple_type, value)

(***************************************************************************)
(* SpecAttr: the property an OptionalAttribute or a RequiredAttribute      *)
(* declaration adds to an element class, read and assigned on one element  *)
(* whose attribute is absent or holds a string of the parsed document.     *)
(***************************************************************************)
\* OptionalAttribute(attr_name, simple_type, default) and
\* RequiredAttribute(attr_name, simple_type) as declared on element classes
CT_OnOff_val ==
    [kind |-> "optional", attr_name |-> "w:val", simple_type |-> "ST_OnOff",
     default |-> PyBool(TRUE)]
CT_Spacing_after ==
    [kind |-> "optional", attr_name |-> "w:after", simple_type |-> "ST_TwipsMeasure",
     default |-> PyNone]
CT_Underline_val ==
    [kind |-> "optional", attr_name |-> "w:val", simple_type |-> "WD_UNDERLINE",
     default |-> PyNone]
CT_DecimalNumber_val ==
    [kind |-> "required", attr_name |-> "w:val", simple_type |-> "ST_DecimalNumber",
     default |-> PyNone]
CT_Highlight_val ==
    [kind |-> "required", attr_name |-> "w:val", simple_type |-> "WD_COLOR_INDEX",
     default |-> PyNone]
AttrDecls ==
    {CT_OnOff_val, CT_Spacing_after, CT_Underline_val, CT_DecimalNumber_val,
     CT_Highlight_val}

\* the attribute strings a parsed element may hold
ParsedStrings(simple_type) ==
    IF simple_type = "ST_OnOff" THEN {"1", "0", "true", "false", "on", "off", "yes"}
    ELSE IF simple_type = "ST_TwipsMeasure" THEN {"0", "2", "1pt"}
    ELSE IF simple_type = "ST_DecimalNumber" THEN {"0", "7", "seven"}
    ELSE IF simple_type = "WD_UNDERLINE" THEN {"none", "single", "wavy"}
    ELSE {"default", "black", "mauve"}

\* the values assigned to the property
AssignedValues(simple_type) ==
    {PyNone} \cup
    (IF simple_type = "ST_OnOff" THEN {PyBool(TRUE), PyBool(FALSE), PyInt(2)}
     ELSE IF simple_type = "ST_TwipsMeasure"
     THEN {Emu(0), Emu(100), Emu(317), Emu(318), Emu(635), Emu(953), Emu(1270),
           Emu(-635)}
     ELSE IF simple_type = "ST_DecimalNumber"
     THEN {PyInt(0), PyInt(7), [type |-> "str", v |-> 7]}
     ELSE {Member(simple_type, -1), Member(simple_type, 0), Member(simple_type, 1),
           Member(simple_type, 99)})

\* the literals the boolean simple types are asked to decode
BooleanLiterals == {"1", "0", "true", "false", "on", "off", "yes", "True", ""}

AttrCalled(op, arg, before, returned) ==
    [op |-> op, arg |-> arg, before |-> before,
     result |-> returned.val, raised |-> returned.raised]

\* OptionalAttribute._getter.get_attr_value
OptionalAttribute_get(decl, attrs) ==
    IF attrs = <<>> THEN Returned(decl.default)
    ELSE simple_type_from_xml(decl.simple_type, attrs[1])

\* the attribute after set_attr_value got str_value from to_xml
attr_set_or_del(attrs, to_xml) ==
    IF to_xml.raised # "none" THEN attrs
    ELSE IF to_xml.val = None THEN <<>>
    ELSE <<to_xml.val>>

\* OptionalAttribute._setter.set_attr_value without the test of the default
OptionalSetAlways(decl, attrs, value) ==
    IF value = PyNone THEN <<>>
    ELSE attr_set_or_del(attrs, simple_type_to_xml(decl.simple_type, value))

\* OptionalAttribute._setter.set_attr_value: the attribute it leaves
OptionalAttribute_set(decl, attrs, value) ==
    IF value = PyNone \/ value = decl.default THEN <<>>
    ELSE attr_set_or_del(attrs, simple_type_to_xml(decl.simple_type, value))

\* what OptionalAttribute._setter.set_attr_value raises
OptionalAttribute_set_raises(decl, value) ==
    IF value = PyNone \/ value = decl.default THEN "none"
    ELSE simple_type_to_xml(decl.simple_type, value).raised

\* RequiredAttribute._getter.get_attr_value
RequiredAttribute_get(decl, attrs) ==
    IF attrs = <<>> THEN Raised("InvalidXmlError")
    ELSE simple_type_from_xml(decl.simple_type, attrs[1])

\* RequiredAttribute._setter.set_attr_value deleting the attribute when
\* to_xml returns None, as the optional setter does
RequiredSetOrDel(decl, attrs, value) ==
    attr_set_or_del(attrs, simple_type_to_xml(decl.simple_type, value))

\* the attribute after RequiredAttribute's set_attr_value got to_xml
required_set(attrs, to_xml) ==
    IF to_xml.raised # "none" \/ to_xml.val = None THEN attrs
    ELSE <<to_xml.val>>

\* RequiredAttribute._setter.set_attr_value: the attribute it leaves
RequiredAttribute_set(decl, attrs, value) ==
    required_set(attrs, simple_type_to_xml(decl.simple_type, value))

\* what RequiredAttribute._setter.set_attr_value raises
required_set_raises(to_xml) ==
    IF to_xml.raised # "none" THEN to_xml.raised
    ELSE IF to_xml.val = None THEN "ValueError"
    ELSE "none"

RequiredAttribute_set_raises(decl, value) ==
    required_set_raises(simple_type_to_xml(decl.simple_type, value))

InitAttr ==
    /\ attr_decl \in AttrDecls
    /\ attrib \in {<<>>} \cup {<<s>> : s \in ParsedStrings(attr_decl.simple_type)}
    /\ acall = <<>>
    /\ CoreIdle
    /\ TblIdle
    /\ IoIdle
    /\ DropIdle
    /\ NameIdle
    /\ LenIdle
    /\ HdrIdle

\* reading the property of an optional attribute
OptionalAttribute_get_attr_value ==
    /\ attr_decl.kind = "optional"
    /\ acall' = AttrCalled("get", PyNone, attrib, OptionalAttribute_get(attr_decl, attrib))
    /\ UNCHANGED <<attr_decl, attrib, notAttrVars>>

\* assigning to the property of an optional attribute
OptionalAttribute_set_attr_value(value) ==
    /\ attr_decl.kind = "optional"
    /\ attrib' = IF OptionalAttribute_set_raises(attr_decl, value) # "none" THEN attrib
                 ELSE OptionalAttribute_set(attr_decl, attrib, value)
    /\ acall' = AttrCalled("set", value, attrib,
                           [raised |-> OptionalAttribute_set_raises(attr_decl, value),
                            val |-> PyNone])
    /\ UNCHANGED <<attr_decl, notAttrVars>>

\* reading the property of a required attribute
RequiredAttribute_get_attr_value ==
    /\ attr_decl.kind = "required"
    /\ acall' = AttrCalled("get", PyNone, attrib, RequiredAttribute_get(attr_decl, attrib))
    /\ UNCHANGED <<attr_decl, attrib, notAttrVars>>

\* assigning to the property of a required attribute
RequiredAttribute_set_attr_value(value) ==
    /\ attr_decl.kind = "required"
    /\ attrib' = RequiredAttribute_set(attr_decl, attrib, value)
    /\ acall' = AttrCalled("set", value, attrib,
                           [raised |-> RequiredAttribute_set_raises(attr_decl, value),
                            val |-> PyNone])
    /\ UNCHANGED <<attr_decl, notAttrVars>>

\* XsdBoolean.from_xml / ST_OnOff.from_xml on a literal
boolean_from_xml(simple_type, xml_value) ==
    /\ acall' = [AttrCalled(simple_type, PyNone, attrib,
                            simple_type_from_xml(simple_type, xml_value))
                 EXCEPT !.before = <<xml_value>>]
    /\ UNCHANGED <<attr_decl, attrib, notAttrVars>>

NextAttr ==
    \/ OptionalAttribute_get_attr_value
    \/ \E value \in AssignedValues(attr_decl.simple_type) :
         OptionalAttribute_set_attr_value(value)
    \/ RequiredAttribute_get_attr_value
    \/ \E value \in AssignedValues(attr_decl.simple_type) :
         RequiredAttribute_set_attr_value(value)
    \/ \E simple_type \in {"XsdBoolean", "ST_OnOff"}, xml_value \in BooleanLiterals :
         boolean_from_xml(simple_type, xml_value)

SpecAttr == InitAttr /\ [][NextAttr]_vars

\* The last call was this operation on an attribute of this kind.
AttrOp(kind, op) == acall # <<>> /\ attr_decl.kind = kind /\ acall.op = op

\* The value a read of the optional attribute returns in this state.
ReadBack == OptionalAttribute_get(attr_decl, attrib)

XmlValueOf(value) ==
    (CHOOSE m \in Members(value.type) : m[1] = value.v)[2]

C22_RequiredAttribute ==
    /\ (AttrOp("required", "get") /\ acall.before = <<>>) =>
          acall.raised = "InvalidXmlError"
    /\ AttrOp("required", "set") =>
          \/ acall.raised = "none" /\ attrib # <<>> /\ attrib # <<None>>
          \/ acall.raised # "none" /\ attrib = acall.before

\* assigning WD_COLOR_INDEX.INHERITED, whose XML value is None, raised and
\* the attribute is still there
C22_Witness ==
    /\ AttrOp("required", "set")
    /\ acall.arg = Member("WD_COLOR_INDEX", -1)
    /\ acall.raised = "ValueError"
    /\ attrib # <<>>

\* C24: XsdBoolean decodes "1" and "true" to true and "0" and "false" to
\* false, ST_OnOff decodes "on" to true and "off" to false as well, and
\* every other literal raises InvalidXmlError.
C24_BooleanLiterals ==
    (acall # <<>> /\ acall.op \in {"XsdBoolean", "ST_OnOff"}) =>
        LET literal == acall.before[1]
            lenient == acall.op = "ST_OnOff"
        IN IF literal \in {"1", "true"} \/ (lenient /\ literal = "on")
           THEN acall.raised = "none" /\ acall.result = PyBool(TRUE)
           ELSE IF literal \in {"0", "false"} \/ (lenient /\ literal = "off")
           THEN acall.raised = "none" /\ acall.result = PyBool(FALSE)
           ELSE acall.raised = "InvalidXmlError"

\* ST_OnOff decoded "on" to true
C24_Witness ==
    /\ acall # <<>>
    /\ acall.op = "ST_OnOff"
    /\ acall.before = <<"on">>
    /\ acall.result = PyBool(TRUE)

(***************************************************************************)
(* SpecLength: one Length of any value from -MaxEmu to MaxEmu EMU, read    *)
(* through Length.twips, made again by Twips from the twips read, written  *)
(* and parsed by ST_TwipsMeasure; and the lengths Twips(1440) and Pt(12).  *)
(***************************************************************************)
LengthLiterals == {1440}    \* the argument of Twips(1440)
PointLiterals == {12}       \* the argument of Pt(12)

\* chained: the argument is what the call before returned for `length`
LengthCalled(op, arg, result, chained) ==
    [op |-> op, arg |-> arg, result |-> result, chained |-> chained]

InitLength ==
    /\ length \in -MaxEmu..MaxEmu
    /\ lcall = <<>>
    /\ CoreIdle
    /\ TblIdle
    /\ IoIdle
    /\ DropIdle
    /\ NameIdle
    /\ AttrIdle
    /\ HdrIdle

\* Length.twips
Length_twips_get ==
    /\ lcall' = LengthCalled("twips", length, Length_twips(length), FALSE)
    /\ UNCHANGED <<length, notLenVars>>

\* Twips(length.twips)
Twips_of_twips ==
    /\ lcall # <<>>
    /\ lcall.op = "twips"
    /\ lcall' = LengthCalled("Twips", lcall.result, Twips(lcall.result), TRUE)
    /\ UNCHANGED <<length, notLenVars>>

\* Twips(twips)
Twips_new(twips) ==
    /\ lcall' = LengthCalled("Twips", twips, Twips(twips), FALSE)
    /\ UNCHANGED <<length, notLenVars>>

\* Pt(points)
Pt_new(points) ==
    /\ lcall' = LengthCalled("Pt", points, Pt(points), FALSE)
    /\ UNCHANGED <<length, notLenVars>>

\* ST_TwipsMeasure.convert_to_xml(length)
ST_TwipsMeasure_convert_to_xml ==
    /\ lcall' = LengthCalled("convert_to_xml", length,
                             ToString(Length_twips(length)), FALSE)
    /\ UNCHANGED <<length, notLenVars>>

\* ST_TwipsMeasure.convert_from_xml of the string convert_to_xml returned
ST_TwipsMeasure_parse ==
    /\ lcall # <<>>
    /\ lcall.op = "convert_to_xml"
    /\ lcall' = LengthCalled("convert_from_xml", lcall.result,
                             ST_TwipsMeasure_convert_from_xml(lcall.result).val.v,
                             TRUE)
    /\ UNCHANGED <<length, notLenVars>>

NextLength ==
    \/ Length_twips_get
    \/ Twips_of_twips
    \/ \E twips \in LengthLiterals : Twips_new(twips)
    \/ \E points \in PointLiterals : Pt_new(points)
    \/ ST_TwipsMeasure_convert_to_xml
    \/ ST_TwipsMeasure_parse

SpecLength == InitLength /\ [][NextLength]_vars

\* C23: Twips(1440) is 914400 EMU and Pt(12) is 152400 EMU; the twips of a
\* length is its EMU value over 635 rounded to the nearest integer; and a
\* length that is a multiple of 635 EMU is got back exactly from its twips
\* by Twips, also through the string ST_TwipsMeasure writes.
C23_TwipsRoundTrip ==
    lcall # <<>> =>
        /\ (lcall.op = "Twips" /\ lcall.arg = 1440) => lcall.result = 914400
        /\ (lcall.op = "Pt" /\ lcall.arg = 12) => lcall.result = 152400
        /\ lcall.op = "twips" =>
              /\ 2 * (635 * lcall.result - length) <= 635
              /\ 2 * (length - 635 * lcall.result) <= 635
        /\ (lcall.op \in {"Twips", "convert_from_xml"} /\ lcall.chained
              /\ length % 635 = 0) => lcall.result = length

\* 1270 EMU were read as 2 twips and made 1270 EMU again by Twips
C23_Witness ==
    /\ lcall # <<>>
    /\ length = 1270
    /\ lcall.op = "Twips"
    /\ lcall.chained
    /\ lcall.arg = 2
    /\ lcall.result = 1270

(***************************************************************************)
(* Part.related_parts under SpecRels.                                      *)
(***************************************************************************)
\* Part.related_parts -> Relationships.related_parts
related_parts == target_parts_by_rId

\* The internal relationships now in the collection, as <<rId, target part>>.
InternalRels ==
    {<<rels[i].rId, rels[i].target_part>> :
        i \in {j \in 1..Len(rels) : ~rels[j].is_external}}

\* C26: after any additions and removals, related_parts maps exactly the
\* rIds of the internal relationships in the collection to their targets.
C26_RelatedPartsExact == related_parts = InternalRels

(***************************************************************************)
(* The serialized parts of a load under SpecIO.                            *)
(***************************************************************************)
\* The partnames the relationships `srels` target, the external ones left out.
InternalTargets(srels) ==
    {target_partname(srels[i]) : i \in {j \in 1..Len(srels) : ~is_external(srels[j])}}

\* The partnames reachable from the package relationships of the physical
\* package through internal relationships.
RECURSIVE PhysClosure(_)
PhysClosure(S) ==
    LET next == S \cup InternalTargets(srels_for(PhysRead, PACKAGE_URI))
                  \cup UNION {InternalTargets(srels_for(PhysRead, u)) : u \in S}
    IN IF next = S THEN S ELSE PhysClosure(next)

\* PackageReader._load_serialized_parts has returned.
PartsLoaded == iopc \in {"unmarshal", "opened"}

\* C27: whatever cycles and diamonds the relationships of the package make,
\* the walk of a load ends with exactly one serialized part for each
\* partname reachable through internal relationships, and with none for an
\* external target; no partname is yielded twice on the way.
C27_OneSerializedPartPerPartname ==
    /\ \A i, j \in 1..Len(sparts) : i # j => sparts[i].partname # sparts[j].partname
    /\ PartsLoaded => {sparts[i].partname : i \in 1..Len(sparts)} = PhysClosure({})

\* a load has returned two parts of which the later one relates back to
\* the earlier one
C27_Witness ==
    /\ PartsLoaded
    /\ Len(sparts) = 2
    /\ sparts[1].partname \in InternalTargets(sparts[2].srels)
    /\ sparts[2].partname \in InternalTargets(sparts[1].srels)

(***************************************************************************)
(* Row widths and the order of the two cells of a merge, under SpecTbl.    *)
(***************************************************************************)
\* The grid columns a row takes up: grid_before plus the grid_span of each
\* of its cells.
RowGridWidth(tr) == grid_before(tr) + SumGridSpans(tr, Len(tr))

\* C29: a merge that succeeds leaves the total grid width of every row of
\* the table what it was.
C29_RowWidthPreserved ==
    MergeSucceeded =>
        /\ Len(tbl.tr_lst) = Len(tcall.before)
        /\ \A r \in 1..Len(tbl.tr_lst) :
              RowGridWidth(tbl.tr_lst[r]) = RowGridWidth(tcall.before[r])

\* a merge over two rows and two columns succeeded and removed cells
C29_Witness ==
    /\ MergeSucceeded
    /\ tcall.dims.width = 2
    /\ tcall.dims.height = 2
    /\ Len(tbl.tr_lst[tcall.dims.top + 1]) < Len(tcall.before[tcall.dims.top + 1])

\* tc_2.merge(tc) on the table the last call tc.merge(tc_2) was made on
Reversed == merge(tcall.before, tcall.tc_2, tcall.tc)

\* The top-left cell CT_Tc.merge returns for these span dimensions.
TopLeft(sd) ==
    IF sd.err # Ok THEN NoTc
    ELSE tc_at_grid_offset(tcall.before[sd.dims.top + 1], sd.dims.left)

\* C30: a.merge(b) and b.merge(a) either both raise InvalidSpanError or
\* both succeed with the same top-left cell and the same table.
C30_MergeSymmetric ==
    tcall # <<>> =>
        \/ /\ tcall.raised = "InvalidSpanError"
           /\ Reversed.err.raised = "InvalidSpanError"
        \/ /\ tcall.raised = "none"
           /\ Reversed.err.raised = "none"
           /\ Reversed.t = tbl.tr_lst
           /\ TopLeft(span_dimensions(tcall.before, tcall.tc_2, tcall.tc))
                = TopLeft(span_dimensions(tcall.before, tcall.tc, tcall.tc_2))

\* The two orders have the same outcome, whichever it is: the same exception
\* or none, the same table, the same top-left cell.
MergeOrderSameOutcome ==
    tcall # <<>> =>
        /\ Reversed.err = [raised |-> tcall.raised, msg |-> tcall.msg]
        /\ Reversed.t = tbl.tr_lst
        /\ TopLeft(span_dimensions(tcall.before, tcall.tc_2, tcall.tc))
             = TopLeft(span_dimensions(tcall.before, tcall.tc, tcall.tc_2))

(***************************************************************************)
(* SpecHdr: the headers and footers of the sections of a document.  The    *)
(* document part holds `rels` (with _target_parts_by_rId beside it); each  *)
(* w:sectPr holds at most one w:headerReference and one w:footerReference  *)
(* of the type at hand, by rId; `partnames` and `wired` are the parts and  *)
(* relationships OpcPackage.iter_parts walks.  is_linked_to_previous is    *)
(* assigned on the header or the footer of any section.                    *)
(***************************************************************************)
DOCUMENT == 1                  \* the DocumentPart
Sections == {1, 2}             \* the w:sectPr elements of the document
HdrFtrParts == 2..5            \* HeaderPart and FooterPart objects
DOCUMENT_PARTNAME == <<"/", "word/document.xml">>
RT_HEADER == "header"
RT_FOOTER == "footer"
HdrFtrKinds == {"headerReference", "footerReference"}

\* _Header or _Footer on the i-th section, by the reference it works on
reltype_of(kind) == IF kind = "headerReference" THEN RT_HEADER ELSE RT_FOOTER

\* CT_SectPr.get_headerReference / get_footerReference: the rId, or None
get_reference(sectPr, kind) == sectPr[kind]

\* _Header._has_definition, _Footer._has_definition
has_definition(sectPr, kind) == get_reference(sectPr, kind) # None

\* CT_SectPr.remove_headerReference / remove_footerReference
remove_reference(sects, i, kind) == [sects EXCEPT ![i][kind] = None]

\* CT_SectPr.add_headerReference / add_footerReference
add_reference(sects, i, kind, rId) == [sects EXCEPT ![i][kind] = rId]

\* self._element.xpath("//@r:id") of the document part, in document order
RECURSIVE xpath_r_ids(_, _)
xpath_r_ids(sects, i) ==
    IF i > Len(sects) THEN <<>>
    ELSE (IF sects[i].headerReference # None THEN <<sects[i].headerReference>> ELSE <<>>)
         \o (IF sects[i].footerReference # None THEN <<sects[i].footerReference>> ELSE <<>>)
         \o xpath_r_ids(sects, i + 1)

\* Part.drop_rel on the document part, an XmlPart whose XML now holds the
\* r:id attributes `ids`
XmlPart_drop_rel(d, ids, rId) ==
    IF XmlPart_rel_ref_count(ids, rId) < 2
    THEN IF rId \in Keys(d)
         THEN [rels |-> DictDel(d, rId), raised |-> "none"]
         ELSE [rels |-> d, raised |-> "KeyError"]
    ELSE [rels |-> d, raised |-> "none"]

\* A header part named header1.xml whatever the package holds.
HeaderPartFirstName == PackURI(Format(HEADER_TEMPLATE, 1))

\* HeaderPart.new, FooterPart.new: the partname of the new part
HeaderPart_new == next_partname_returns(HEADER_TEMPLATE).result
FooterPart_new == next_partname_returns(FOOTER_TEMPLATE).result

\* the Part object constructed, numbered by the rId it is about to be
\* related by: the part that had this number, if any, lost that relationship
\* and is no longer reachable
NewPart(rId) == 1 + CHOOSE n \in 1..Len(RIdTable) : RIdTable[n] = rId

\* the relationships iter_parts walks: the package to the document part,
\* the document part to the targets of its relationships
WiredBy(d) ==
    {<<PACKAGE, DOCUMENT>>} \cup {<<DOCUMENT, d[i].target_part>> : i \in 1..Len(d)}

\* the partnames of the parts still related, `names` being all there were
NamesOf(d, names) ==
    [p \in {DOCUMENT} \cup {d[i].target_part : i \in 1..Len(d)} |-> names[p]]

\* What the caller saw of the assignment, and whether it changed anything.
HdrCalled(i, kind, value, raised, changed) ==
    [op |-> "is_linked_to_previous", value |-> value,
     raised |-> raised, changed |-> changed]

\* a document as loaded: every reference resolves, sections may share a
\* definition, and the partnames are pairwise distinct
LoadedHeader(n) == Relationship("rId1", RT_HEADER, 2, NoURI, FALSE)
LoadedFooter == Relationship("rId2", RT_FOOTER, 3, NoURI, FALSE)

LoadedRels(sects) ==
    (IF \E i \in 1..Len(sects) : sects[i].headerReference # None
     THEN <<LoadedHeader(1)>> ELSE <<>>)
    \o (IF \E i \in 1..Len(sects) : sects[i].footerReference # None
        THEN <<LoadedFooter>> ELSE <<>>)

InitHdr ==
    /\ sectPr_lst \in [Sections ->
                         [headerReference : {None, "rId1"},
                          footerReference : {None, "rId2"}]]
    /\ rels = LoadedRels(sectPr_lst)
    /\ target_parts_by_rId = {<<rels[i].rId, rels[i].target_part>> : i \in 1..Len(rels)}
    /\ call = NoCall
    /\ \E n \in 1..2 :
          partnames = NamesOf(rels, [p \in {DOCUMENT} \cup HdrFtrParts |->
                                       IF p = DOCUMENT THEN PackURI(DOCUMENT_PARTNAME)
                                       ELSE IF p = 2 THEN PackURI(Format(HEADER_TEMPLATE, n))
                                       ELSE PackURI(Format(FOOTER_TEMPLATE, 1))])
    /\ wired = WiredBy(rels)
    /\ ncall = <<>>
    /\ hcall = <<>>
    /\ WalkIdle
    /\ PkgIdle
    /\ TypesIdle
    /\ XmlIdle
    /\ TblIdle
    /\ IoIdle
    /\ DropIdle
    /\ AttrIdle
    /\ LenIdle

\* _Header._drop_definition, _Footer._drop_definition:
\*   rId = self._sectPr.remove_headerReference(self._hdrftr_index)
\*   self._document_part.drop_header_part(rId)   [drop_rel(rId)]
drop_definition(i, kind, dropped) ==
    /\ sectPr_lst' = remove_reference(sectPr_lst, i, kind)
    /\ rels' = dropped.rels
    /\ wired' = WiredBy(dropped.rels)
    /\ partnames' = NamesOf(dropped.rels, partnames)
    /\ hcall' = HdrCalled(i, kind, TRUE, dropped.raised, TRUE)
    /\ UNCHANGED <<target_parts_by_rId, notHdrVars>>

\* _Header._add_definition, _Footer._add_definition:
\*   header_part, rId = self._document_part.add_header_part()
\*   self._sectPr.add_headerReference(self._hdrftr_index, rId)
\* with DocumentPart.add_header_part: HeaderPart.new(self.package), then
\* self.relate_to(header_part, RT.HEADER)
add_definition(i, kind, part, new_partname, rId) ==
    /\ rels' = DictSet(rels, Relationship(rId, reltype_of(kind), part, NoURI, FALSE))
    /\ target_parts_by_rId' = ByRIdSet(target_parts_by_rId, rId, part)
    /\ partnames' = (part :> new_partname) @@ partnames
    /\ wired' = wired \cup {<<DOCUMENT, part>>}
    /\ sectPr_lst' = add_reference(sectPr_lst, i, kind, rId)
    /\ hcall' = HdrCalled(i, kind, FALSE, "none", TRUE)
    /\ UNCHANGED notHdrVars

\* _BaseHeaderFooter.is_linked_to_previous setter on the header or footer of
\* the i-th section
is_linked_to_previous_set(i, kind, value) ==
    IF value = ~has_definition(sectPr_lst[i], kind)
    THEN /\ hcall' = HdrCalled(i, kind, value, "none", FALSE)
         /\ UNCHANGED <<sectPr_lst, rels, target_parts_by_rId, partnames, wired,
                        notHdrVars>>
    ELSE IF value
    THEN drop_definition(i, kind,
            XmlPart_drop_rel(rels,
                             xpath_r_ids(remove_reference(sectPr_lst, i, kind), 1),
                             get_reference(sectPr_lst[i], kind)))
    ELSE add_definition(i, kind, NewPart(next_rId(rels)),
                        IF kind = "headerReference" THEN HeaderPart_new
                        ELSE FooterPart_new,
                        next_rId(rels))

NextHdr ==
    \E i \in Sections, kind \in HdrFtrKinds, value \in BOOLEAN :
        is_linked_to_previous_set(i, kind, value)

SpecHdr == InitHdr /\ [][NextHdr]_vars

\* Every header and footer reference of every section is the rId of a
\* relationship of the document part.
AllReferencesResolve ==
    \A i \in 1..Len(sectPr_lst) : \A kind \in HdrFtrKinds :
        sectPr_lst[i][kind] # None => sectPr_lst[i][kind] \in Keys(rels)

\* C25: when every reference resolves, also with two sections referring to
\* the same rId, assigning True to is_linked_to_previous of one header or
\* footer leaves every reference that remains resolving.
C25_LinkingKeepsReferences ==
    [][(AllReferencesResolve /\ hcall'.value /\ hcall'.changed)
         => AllReferencesResolve']_vars

\* The parts reachable from the package.
ReachableHdrParts == WiredClosure({})

\* C28: whatever header and footer parts are added and whatever header and
\* footer relationships are dropped, the parts reachable from the package
\* keep pairwise distinct partnames.
C28_DistinctPartnames ==
    \A p, q \in ReachableHdrParts : p # q => partnames[p].s # partnames[q].s

\* a header was added while another header part was reachable, so that the
\* package holds two header parts
C28_Witness ==
    /\ hcall # <<>>
    /\ hcall.changed
    /\ ~hcall.value
    /\ Cardinality({i \in 1..Len(rels) : rels[i].reltype = RT_HEADER}) = 2

====
